---------------------------- MODULE Spec2Model ----------------------------
(***************************************************************************)
(* Dual-vector storage engine of the personal knowledge-base indexer:      *)
(*   Core/text_processor.py        TextProcessor (chunking policy)         *)
(*   Data_Layer/storage_manager.py SQLiteMetadataStore, TextVectorStore,   *)
(*                                 VisualVectorStore, UnifiedStorageManager*)
(*                                                                         *)
(* Text is a sequence of one-character strings.  The character classes the *)
(* code distinguishes are kept: a letter "a", the blank " ", a sentence    *)
(* ending mark ".", a control character "^" (any of \x00-\x1f, \x7f) and   *)
(* the separator "|" of the dedup key.                                     *)
(*                                                                         *)
(* Lengths are scaled so that TLC can enumerate texts: the chunk size, the *)
(* overlap, the sentence look-back and the normalisation cut-off keep the  *)
(* source's names and roles but hold small values (1500, 150, 200 and 2000 *)
(* in the source).  They are bounds of the model.                          *)
(***************************************************************************)
EXTENDS Integers, Sequences, FiniteSets, TLC

VARIABLES
    \* ---- TextProcessor.chunk_text, one call unrolled loop iteration by iteration
    ct_text,        \* argument text
    ct_chunk_size,  \* argument chunk_size
    ct_overlap,     \* argument overlap (as passed, before clamping)
    ct_start,       \* local variable start
    ct_chunks,      \* local variable chunks
    ct_pc,          \* "call" | "loop" | "done" | "error" | "idle"
    \* ---- the two vector stores (in memory)
    text_index,     \* TextVectorStore.index: [d, vecs], a faiss IndexFlatL2
    visual_index,   \* VisualVectorStore.index: [d, vecs], a faiss IndexFlatIP
    python_optimize,\* the interpreter runs with assert statements stripped (-O)
    \* ---- SQLiteMetadataStore: the three tables, a row's id is its position
    memory_items,   \* rows [source, content, content_hash, vector_id]
    chunks,         \* rows [memory_item_id, chunk_text, chunk_index, start_pos, end_pos, vector_id]
    visual_items,   \* rows [path, ocr_text, vector_id, image_hash]
    \* ---- UnifiedStorageManager
    self_embeddings,\* self.embeddings: "loaded" or "None"
    text_embeddings_enabled,         \* self._text_embeddings_enabled
    text_embedding_warning_shown,    \* self._text_embedding_warning_shown
    visual_embedding_warning_shown,  \* self._visual_embedding_warning_shown
    ingest_error_counts,             \* self._ingest_error_counts
    disk,           \* the two index files as last written by save()
    \* ---- observation of the calls
    last,           \* the last call: its operation, arguments and result
    issued,         \* every vector id returned by add so far, per store, in order
    origin,         \* per text vector id: the (source, text, item) it was embedded for
    returned,       \* the ids ingest_text has returned: [id, by_insert]
    discarded,      \* a restart has read a text index file older than the index in memory
    occurrences     \* per (source, exception): the ingest_text calls that caught it so far

chunk_vars == <<ct_text, ct_chunk_size, ct_overlap, ct_start, ct_chunks, ct_pc>>

index_vars == <<text_index, visual_index, python_optimize, last, issued>>

meta_vars == <<memory_items, chunks, visual_items>>

manager_vars == <<self_embeddings, text_embeddings_enabled, text_embedding_warning_shown,
                  visual_embedding_warning_shown, ingest_error_counts, disk,
                  origin, returned, discarded, occurrences>>

vars == <<ct_text, ct_chunk_size, ct_overlap, ct_start, ct_chunks, ct_pc,
          text_index, visual_index, python_optimize, last, issued,
          memory_items, chunks, visual_items,
          self_embeddings, text_embeddings_enabled, text_embedding_warning_shown,
          visual_embedding_warning_shown, ingest_error_counts, disk,
          origin, returned, discarded, occurrences>>

-----------------------------------------------------------------------------
(* Bounds *)

\* TextProcessor.CHUNK_SIZE_LONG (1500 in the source), scaled
CHUNK_SIZE_LONG == 3
\* TextProcessor.CHUNK_OVERLAP (150 in the source), scaled
CHUNK_OVERLAP == 1
\* the "last 200 chars" of the sentence-boundary search, scaled
SENTENCE_LOOKBACK == 3
\* longest text handed to chunk_text on its own
MaxTextLen == 5
\* largest chunk_size and overlap argument tried (the smallest is -1)
MaxChunkArg == 4
\* most vectors one index holds
MaxVectors == 3
\* most rows of one array handed to add
MaxBatch == 2
\* the max_chars default of _normalize_text_for_embedding (2000 in the source), scaled
MAX_CHARS == 6
\* most MemoryItem rows
MaxItems == 2
\* an embedding failure is injected into one of the first MaxFailAt encode calls of a call
MaxFailAt == 2
\* most VisualItem rows
MaxVisual == 2
\* largest top_k of a search
MaxTopK == 2
\* the largest distance for which the score function is tabulated
MaxDistance == 8
\* the length of the message prefix in an error key (80 in the source)
MSG_PREFIX == 3
\* the most rows of a run of failing ingest_text calls
MaxErrorItems == 5
\* the caps of the browser search text (500, 400, 600 and 1000 in the source), scaled
BROWSER_TITLE_MAX == 4
BROWSER_QUERY_MAX == 3
URL_COMPACT_MAX == 5
BROWSER_TEXT_MAX == 6
\* the caps of the browser fallback text (280, 220 and 500 in the source), scaled
FALLBACK_TITLE_MAX == 2
FALLBACK_QUERY_MAX == 2
FALLBACK_TEXT_MAX == 4
\* a token longer than this is dropped (80 in the source), scaled
NOISY_TOKEN_LEN == 3
\* a token at least this long is tested for symbols (20 in the source), scaled
SYMBOL_TOKEN_LEN == 2
\* most records of one browser file
MaxRecords == 2

-----------------------------------------------------------------------------
(* StorageConfig *)

TEXT_DIM == 1024
VISUAL_DIM == 512
\* the occurrences of an error key reported in full (line 638)
ERROR_DETAIL_LIMIT == 3

-----------------------------------------------------------------------------
(* Characters and Python string helpers *)

Letter == "a"
Blank == " "
Period == "."
Control == "^"
Bar == "|"

Min(a, b) == IF a < b THEN a ELSE b
Max(a, b) == IF a > b THEN a ELSE b

\* str.isspace of one character, as str.split(), str.strip() and the regex \s see it
IsSpace(c) == c = Blank

\* the regex class [.!?]
IsSentenceEnd(c) == c = Period

\* Python slice s[i:j] for 0 <= i, j (0-based, end exclusive)
Slice(s, i, j) == SubSeq(s, i + 1, Min(j, Len(s)))

RECURSIVE LStrip(_)
LStrip(s) ==
    IF s = <<>> THEN <<>>
    ELSE IF IsSpace(Head(s)) THEN LStrip(Tail(s)) ELSE s

RECURSIVE RStrip(_)
RStrip(s) ==
    IF s = <<>> THEN <<>>
    ELSE IF IsSpace(s[Len(s)]) THEN RStrip(SubSeq(s, 1, Len(s) - 1)) ELSE s

\* a strip() that removes nothing
Strip_Nothing(s) == s

\* str.strip()
Strip(s) == RStrip(LStrip(s))

\* number of leading whitespace characters of s from (1-based) position i on
RECURSIVE SpaceRun(_, _)
SpaceRun(s, i) ==
    IF i > Len(s) THEN 0
    ELSE IF IsSpace(s[i]) THEN 1 + SpaceRun(s, i + 1) ELSE 0

\* [m.end() for m in re.finditer(r'[.!?]\s+', s)] as a set: a match starts at
\* every sentence-ending mark followed by whitespace and takes the whole run
SentenceBreaks(s) ==
    { p + SpaceRun(s, p + 1) : p \in { q \in 1..Len(s) :
                                         /\ IsSentenceEnd(s[q])
                                         /\ q < Len(s)
                                         /\ IsSpace(s[q + 1]) } }

\* the sequences over S of length at most n
RECURSIVE SeqsUpTo(_, _)
SeqsUpTo(S, n) ==
    IF n = 0 THEN {<<>>}
    ELSE LET shorter == SeqsUpTo(S, n - 1)
         IN  shorter \cup { Append(s, c) : s \in shorter, c \in S }

SetMax(S) == CHOOSE x \in S : \A y \in S : y <= x

-----------------------------------------------------------------------------
(* TextProcessor *)

\* a test that sends a text of exactly CHUNK_SIZE_LONG characters to chunk_text
should_chunk_AtLimit(text) == Len(text) >= CHUNK_SIZE_LONG

should_chunk(text) == Len(text) > CHUNK_SIZE_LONG

\* overlap = max(0, min(overlap, chunk_size - 1))
ClampOverlap(overlap, chunk_size) == Max(0, Min(overlap, chunk_size - 1))

\* lines 96-100: next_start = end - overlap, moved forward when it would not advance
NextStart_NoGuard(start, end, overlap) == end - overlap

\* a next start that ignores the overlap
NextStart_AtEnd(start, end, overlap) == IF end <= start THEN start + 1 ELSE end

NextStart_SkipsOne(start, end, overlap) ==
    IF end + 1 - overlap <= start THEN start + 1 ELSE end + 1 - overlap

NextStart(start, end, overlap) ==
    IF end - overlap <= start THEN start + 1 ELSE end - overlap

\* One iteration of the while loop of chunk_text, entered with `start`:
\* the chunk appended (if any), the window's end, whether the loop breaks,
\* and the next start.  `overlap` is the clamped overlap.
ChunkWindow(text, chunk_size, overlap, start) ==
    LET n == Len(text)
        end0 == Min(start + chunk_size, n)
        chunk0 == Slice(text, start, end0)
        search_start == Max(0, Len(chunk0) - SENTENCE_LOOKBACK)
        sentence_breaks ==
            IF end0 < n
            THEN SentenceBreaks(Slice(chunk0, search_start, Len(chunk0)))
            ELSE {}
        break_pos == search_start + SetMax(sentence_breaks)
        trimmed == sentence_breaks # {}
        chunk == IF trimmed THEN Slice(chunk0, 0, break_pos) ELSE chunk0
        end == IF trimmed THEN start + break_pos ELSE end0
        clean_chunk == Strip(chunk)
        next_start == NextStart(start, end, overlap)
    IN  [ appended |-> IF clean_chunk # <<>>
                       THEN << <<clean_chunk, start, end>> >>
                       ELSE <<>>,
          end |-> end,
          stop |-> end >= n,
          next_start |-> next_start ]

\* the while loop of chunk_text from `start` on
RECURSIVE ChunkLoop(_, _, _, _)
ChunkLoop(text, chunk_size, overlap, start) ==
    IF ~(start < Len(text)) THEN <<>>
    ELSE LET w == ChunkWindow(text, chunk_size, overlap, start)
         IN  IF w.stop THEN w.appended
             ELSE w.appended \o ChunkLoop(text, chunk_size, overlap, w.next_start)

\* chunk_text(text, chunk_size, overlap) for chunk_size > 0: the list of
\* (chunk_text, start_pos, end_pos) tuples
chunk_text(text, chunk_size, overlap) ==
    IF Len(text) <= chunk_size
    THEN << <<text, 0, Len(text)>> >>
    ELSE ChunkLoop(text, chunk_size, ClampOverlap(overlap, chunk_size), 0)

-----------------------------------------------------------------------------
(* TextVectorStore and VisualVectorStore *)

\* An array of embeddings: ndim 1 (one vector) or 2 (a matrix), `w` values per
\* row, and the rows.  A row is known by the thing it is the embedding of.
Array(ndim, w, rows) == [ndim |-> ndim, w |-> w, rows |-> rows]

\* embeddings.reshape(1, -1) of a 1-d array
Reshape(embeddings) ==
    IF embeddings.ndim = 1 THEN [embeddings EXCEPT !.ndim = 2] ELSE embeddings

\* faiss.IndexFlatL2(dimension) / faiss.IndexFlatIP(dimension)
NewIndex(dimension) == [d |-> dimension, vecs |-> <<>>]

\* index.ntotal
ntotal(index) == Len(index.vecs)

\* list(range(a, b))
Range(a, b) == [i \in 1..(b - a) |-> a + i - 1]

\* faiss_index.bin: not there, or as faiss.write_index wrote it
NoFile == [exists |-> FALSE]
IndexFile(index) == [exists |-> TRUE, index |-> index]

\* what faiss stores for a row it read with the wrong stride
Garbled == "garbled"

\* faiss index.add(x) of the Python wrapper: `n, d = x.shape; assert d == self.d`
\* and then n rows of self.d values are read from x.  The width check is an
\* assert statement: an interpreter run with -O does not execute it.
FaissIndexAdd(index, x, optimize) ==
    IF x.w # index.d /\ ~optimize
    THEN [raised |-> TRUE, index |-> index]
    ELSE [raised |-> FALSE,
          index |-> [index EXCEPT !.vecs = @ \o
                        (IF x.w = index.d THEN x.rows
                                          ELSE [i \in 1..Len(x.rows) |-> Garbled])]]

\* the ids add returns: list(range(start_id, self.index.ntotal))
AddedIds_FromZero(start_id, new_ntotal) == Range(0, new_ntotal - start_id)

\* ids counted from 1
AddedIds_OneBased(start_id, new_ntotal) == Range(start_id + 1, new_ntotal + 1)

AddedIds(start_id, new_ntotal) == Range(start_id, new_ntotal)

\* TextVectorStore.add(embeddings): [raised, index, ids]
TextVectorStore_add(index, embeddings, optimize) ==
    LET e == Reshape(embeddings)
    IN  IF e.w # index.d
        THEN [raised |-> TRUE, index |-> index, ids |-> <<>>]   \* ValueError
        ELSE LET start_id == ntotal(index)
                 r == FaissIndexAdd(index, e, optimize)
             IN  IF r.raised
                 THEN [raised |-> TRUE, index |-> index, ids |-> <<>>]
                 ELSE [raised |-> FALSE, index |-> r.index,
                       ids |-> AddedIds(start_id, ntotal(r.index))]

\* VisualVectorStore.add(embeddings): [raised, index, ids]; no width check of its own
VisualVectorStore_add(index, embeddings, optimize) ==
    LET e == Reshape(embeddings)
        start_id == ntotal(index)
        r == FaissIndexAdd(index, e, optimize)
    IN  IF r.raised
        THEN [raised |-> TRUE, index |-> index, ids |-> <<>>]       \* AssertionError
        ELSE [raised |-> FALSE, index |-> r.index,
              ids |-> AddedIds(start_id, ntotal(r.index))]

-----------------------------------------------------------------------------
(* The vector stores alone: add called with arrays of any width *)

\* no chunk_text call is observed
ChunkIdle ==
    /\ ct_text = <<>>
    /\ ct_chunk_size = 0
    /\ ct_overlap = 0
    /\ ct_start = 0
    /\ ct_chunks = <<>>
    /\ ct_pc = "idle"

\* empty tables and a manager whose embedding models loaded; nothing saved
ManagerIdle ==
    /\ memory_items = <<>>
    /\ chunks = <<>>
    /\ visual_items = <<>>
    /\ self_embeddings = "loaded"
    /\ text_embeddings_enabled = TRUE
    /\ text_embedding_warning_shown = FALSE
    /\ visual_embedding_warning_shown = FALSE
    /\ ingest_error_counts = <<>>
    /\ disk = [text |-> NoFile, visual |-> NoFile]
    /\ origin = <<>>
    /\ returned = {}
    /\ discarded = FALSE
    /\ occurrences = <<>>

\* freshly constructed stores, no call made yet
IndexInit ==
    /\ text_index = NewIndex(TEXT_DIM)
    /\ visual_index = NewIndex(VISUAL_DIM)
    /\ last = [op |-> "none"]
    /\ issued = [text |-> <<>>, visual |-> <<>>]

Rows == {"u", "v"}

\* the arrays handed to add: 0..MaxBatch rows, a 1-d array being one row
Arrays ==
    { Array(2, w, rows) : w \in {TEXT_DIM, VISUAL_DIM},
                          rows \in SeqsUpTo(Rows, MaxBatch) }
    \cup { Array(1, w, <<r>>) : w \in {TEXT_DIM, VISUAL_DIM}, r \in Rows }

StoreInit ==
    /\ IndexInit
    /\ ManagerIdle
    /\ python_optimize \in BOOLEAN
    /\ ChunkIdle

\* text_store.add(e)
TextAdd(e) ==
    /\ ntotal(text_index) + Len(e.rows) <= MaxVectors
    /\ LET r == TextVectorStore_add(text_index, e, python_optimize)
       IN  /\ text_index' = r.index
           /\ last' = [op |-> "text_add", arg |-> e, raised |-> r.raised, ids |-> r.ids]
           /\ issued' = [issued EXCEPT !.text = @ \o r.ids]
    /\ UNCHANGED <<visual_index, python_optimize>>
    /\ UNCHANGED <<chunk_vars, meta_vars, manager_vars>>

\* visual_store.add(e)
VisualAdd(e) ==
    /\ ntotal(visual_index) + Len(e.rows) <= MaxVectors
    /\ LET r == VisualVectorStore_add(visual_index, e, python_optimize)
       IN  /\ visual_index' = r.index
           /\ last' = [op |-> "visual_add", arg |-> e, raised |-> r.raised, ids |-> r.ids]
           /\ issued' = [issued EXCEPT !.visual = @ \o r.ids]
    /\ UNCHANGED <<text_index, python_optimize>>
    /\ UNCHANGED <<chunk_vars, meta_vars, manager_vars>>

StoreNext == \E e \in Arrays : TextAdd(e) \/ VisualAdd(e)

SpecIndex == StoreInit /\ [][StoreNext]_vars

-----------------------------------------------------------------------------
(* Properties of the vector stores *)

NoDuplicates(seq) == \A i, j \in 1..Len(seq) : i # j => seq[i] # seq[j]

\* C3 as stated: for the text and for the visual index, add with an array
\* whose width differs from the index dimension raises and leaves the index
\* as it was (same count, same vectors).
C3_DimensionGuard ==
    [][ /\ ((last'.op = "text_add" /\ last'.arg.w # text_index.d)
              => (last'.raised /\ text_index' = text_index))
        /\ ((last'.op = "visual_add" /\ last'.arg.w # visual_index.d)
              => (last'.raised /\ visual_index' = visual_index)) ]_vars

\* C10: an add of n vectors to an index holding c vectors returns the ids
\* c, c+1, ..., c+n-1 and raises the count to c+n; the count of an index
\* never decreases; over all add calls no id is returned twice (the
\* returned id lists are pairwise disjoint).
C10_AppendOnlyIds ==
    /\ [][ /\ ((last'.op = "text_add" /\ ~last'.raised)
                  => /\ last'.ids = Range(ntotal(text_index),
                                          ntotal(text_index) + Len(last'.arg.rows))
                     /\ ntotal(text_index') = ntotal(text_index) + Len(last'.arg.rows))
            /\ ((last'.op = "visual_add" /\ ~last'.raised)
                  => /\ last'.ids = Range(ntotal(visual_index),
                                          ntotal(visual_index) + Len(last'.arg.rows))
                     /\ ntotal(visual_index') = ntotal(visual_index) + Len(last'.arg.rows))
            /\ ntotal(text_index') >= ntotal(text_index)
            /\ ntotal(visual_index') >= ntotal(visual_index) ]_vars
    /\ [](NoDuplicates(issued.text) /\ NoDuplicates(issued.visual))

\* an add of two vectors to a text index that already holds one, after
\* which the visual index has been added to as well
C10_Witness ==
    /\ issued.text = <<0, 1, 2>>
    /\ Len(issued.visual) >= 2
    /\ last.op = "visual_add"
    /\ ~last.raised
    /\ Len(last.ids) = 2

-----------------------------------------------------------------------------
(* chunk_text as a process: the call, then one action per loop iteration *)

ChunkChars == {Letter, Blank, Period}

ChunkInit ==
    /\ IndexInit
    /\ ManagerIdle
    /\ python_optimize = FALSE
    /\ ct_text \in SeqsUpTo(ChunkChars, MaxTextLen)
    /\ ct_chunk_size \in -1..MaxChunkArg
    /\ ct_overlap \in -1..MaxChunkArg
    /\ ct_start = 0
    /\ ct_chunks = <<>>
    /\ ct_pc = "call"

\* lines 51-67: the argument checks and the short-text return
ChunkCall ==
    /\ ct_pc = "call"
    /\ IF ct_chunk_size <= 0
       THEN /\ ct_pc' = "error"          \* raise ValueError
            /\ UNCHANGED <<ct_start, ct_chunks>>
       ELSE IF Len(ct_text) <= ct_chunk_size
       THEN /\ ct_pc' = "done"
            /\ ct_chunks' = << <<ct_text, 0, Len(ct_text)>> >>
            /\ UNCHANGED ct_start
       ELSE /\ ct_pc' = "loop"
            /\ ct_start' = 0
            /\ ct_chunks' = <<>>
    /\ UNCHANGED <<ct_text, ct_chunk_size, ct_overlap>>
    /\ UNCHANGED <<index_vars, meta_vars, manager_vars>>

\* lines 69-100: one iteration of the while loop
ChunkIterate ==
    /\ ct_pc = "loop"
    /\ IF ~(ct_start < Len(ct_text))
       THEN /\ ct_pc' = "done"
            /\ UNCHANGED <<ct_start, ct_chunks>>
       ELSE LET w == ChunkWindow(ct_text, ct_chunk_size,
                                 ClampOverlap(ct_overlap, ct_chunk_size), ct_start)
            IN  /\ ct_chunks' = ct_chunks \o w.appended
                /\ IF w.stop
                   THEN /\ ct_pc' = "done"
                        /\ UNCHANGED ct_start
                   ELSE /\ ct_pc' = "loop"
                        /\ ct_start' = w.next_start
    /\ UNCHANGED <<ct_text, ct_chunk_size, ct_overlap>>
    /\ UNCHANGED <<index_vars, meta_vars, manager_vars>>

ChunkNext == ChunkCall \/ ChunkIterate

SpecChunk == ChunkInit /\ [][ChunkNext]_vars

-----------------------------------------------------------------------------
(* Properties of chunk_text *)

ChunkReturned == ct_pc = "done"
ChunkedLongText == ChunkReturned /\ ct_chunk_size > 0 /\ Len(ct_text) > ct_chunk_size

\* 0-based position p lies in the span [start, end) of some returned chunk
Covered(p) == \E i \in 1..Len(ct_chunks) : ct_chunks[i][2] <= p /\ p < ct_chunks[i][3]

\* C7 as stated: for a text longer than chunk_size the returned spans, in
\* order, cover every position: the first span starts at 0, the last ends at
\* len(text), and each next span starts at or before the previous span's end.
C7_CoverageAsStated ==
    ChunkedLongText =>
        /\ ct_chunks # <<>>
        /\ ct_chunks[1][2] = 0
        /\ ct_chunks[Len(ct_chunks)][3] = Len(ct_text)
        /\ \A i \in 1..(Len(ct_chunks) - 1) : ct_chunks[i + 1][2] <= ct_chunks[i][3]
        /\ \A p \in 0..(Len(ct_text) - 1) : Covered(p)

\* C7 (amended): for a text longer than chunk_size and every overlap the
\* returned spans lie inside the text, their starts strictly increase, and
\* they cover every position that holds a non-whitespace character; a
\* position left uncovered holds whitespace (its window was empty after
\* trimming and was discarded).
C7_CoverageOfNonWhitespace ==
    ChunkedLongText =>
        /\ \A i \in 1..Len(ct_chunks) :
              /\ 0 <= ct_chunks[i][2]
              /\ ct_chunks[i][2] < ct_chunks[i][3]
              /\ ct_chunks[i][3] <= Len(ct_text)
        /\ \A i \in 1..(Len(ct_chunks) - 1) : ct_chunks[i][2] < ct_chunks[i + 1][2]
        /\ \A p \in 0..(Len(ct_text) - 1) :
              ~IsSpace(ct_text[p + 1]) => Covered(p)

\* a long text was chunked into at least two chunks, with a window in between
\* discarded: a non-whitespace character follows an uncovered position
C7_Witness ==
    /\ ChunkedLongText
    /\ Len(ct_chunks) >= 2
    /\ \E p \in 0..(Len(ct_text) - 1) :
          /\ ~Covered(p)
          /\ ct_chunks[1][3] <= p
          /\ p < ct_chunks[Len(ct_chunks)][2]

\* C8: for chunk_size > 0 and every overlap the window start strictly
\* increases from one loop iteration to the next and stays below len(text)
\* while the loop runs, so the loop ends after at most len(text) iterations
\* and the call returns;
\* for chunk_size <= 0 the call raises and never enters the loop.
C8_ForwardProgress ==
    /\ [][(ct_pc = "loop" /\ ct_pc' = "loop") => ct_start' > ct_start]_vars
    /\ [](ct_pc = "loop" => (0 <= ct_start /\ ct_start < Len(ct_text)))
    /\ [](ct_chunk_size > 0 => ct_pc # "error")
    /\ [](ct_chunk_size <= 0 => ct_pc \in {"call", "error"})

\* the loop is in a later iteration that it reached through the forward
\* progress guard: end - overlap of the last window did not pass its start
C8_Witness ==
    /\ ct_pc = "loop"
    /\ ct_chunks # <<>>
    /\ LET c == ct_chunks[Len(ct_chunks)]
       IN  /\ c[3] - ClampOverlap(ct_overlap, ct_chunk_size) <= c[2]
           /\ ct_start = c[2] + 1
           /\ ct_overlap >= ct_chunk_size - 1

-----------------------------------------------------------------------------
(* SQLiteMetadataStore *)

\* a NULL column, Python's None where an id is expected
NULL == -1
\* the error result of ingest_text and ingest_image
INGEST_ERROR == -1
\* no row: fetchone() returned None
NoRow == 0

\* SELECT ... WHERE ... LIMIT 1: the first row that matches, or NoRow;
\* matches[i] tells whether row i satisfies the WHERE clause
FirstRow(matches) ==
    IF \E i \in 1..Len(matches) : matches[i]
    THEN CHOOSE i \in 1..Len(matches) :
             matches[i] /\ \A j \in 1..(i - 1) : ~matches[j]
    ELSE NoRow

\* add_memory_item: the table after the INSERT (the new row's id is its length)
add_memory_item(items, source, content, content_hash) ==
    Append(items, [source |-> source, content |-> content,
                   content_hash |-> content_hash, vector_id |-> NULL])

\* an insert that numbers a chunk by its start position
add_chunk_IndexFromStart(table, memory_item_id, chunk, chunk_index, start_pos, end_pos, vector_id) ==
    Append(table, [memory_item_id |-> memory_item_id, chunk_text |-> chunk,
                   chunk_index |-> start_pos, start_pos |-> start_pos,
                   end_pos |-> end_pos, vector_id |-> vector_id])

add_chunk(table, memory_item_id, chunk, chunk_index, start_pos, end_pos, vector_id) ==
    Append(table, [memory_item_id |-> memory_item_id, chunk_text |-> chunk,
                   chunk_index |-> chunk_index, start_pos |-> start_pos,
                   end_pos |-> end_pos, vector_id |-> vector_id])

\* an insert that leaves the row's vector_id unset
add_visual_item_NoVector(table, path, ocr_text, vector_id, image_hash) ==
    Append(table, [path |-> path, ocr_text |-> ocr_text, vector_id |-> NULL,
                   image_hash |-> image_hash])

add_visual_item(table, path, ocr_text, vector_id, image_hash) ==
    Append(table, [path |-> path, ocr_text |-> ocr_text,
                   vector_id |-> vector_id, image_hash |-> image_hash])

get_memory_item_by_hash_Miss(items, content_hash) == NoRow

get_memory_item_by_hash(items, content_hash) ==
    FirstRow([i \in 1..Len(items) |-> items[i].content_hash = content_hash])

\* a lookup that finds no row
get_visual_item_by_hash_Miss(table, image_hash) == NoRow

get_visual_item_by_hash(table, image_hash) ==
    FirstRow([i \in 1..Len(table) |-> table[i].image_hash = image_hash])

get_visual_item_by_vector_id(table, vector_id) ==
    FirstRow([i \in 1..Len(table) |-> table[i].vector_id = vector_id])

\* WHERE vector_id = ?: a row whose vector_id is NULL matches no value
get_chunk_by_vector_id(table, vector_id) ==
    FirstRow([i \in 1..Len(table) |->
                 table[i].vector_id # NULL /\ table[i].vector_id = vector_id])

get_memory_item_by_vector_id(items, vector_id) ==
    FirstRow([i \in 1..Len(items) |->
                 items[i].vector_id # NULL /\ items[i].vector_id = vector_id])

\* get_memory_item(item_id): the row id, or NoRow
get_memory_item(items, item_id) ==
    IF item_id \in 1..Len(items) THEN item_id ELSE NoRow

update_memory_item_vector_id_Skipped(items, item_id, vector_id) == items

update_memory_item_vector_id(items, item_id, vector_id) ==
    IF item_id \in 1..Len(items)
    THEN [items EXCEPT ![item_id].vector_id = vector_id]
    ELSE items

\* the source 'unknown' reported for a chunk without a parent row
UnknownSource == <<"?">>

\* resolve_text_vector_id: the chunk table first, then memory_items, else None
resolve_text_vector_id_ItemsOnly(items, table, vector_id) ==
    LET item == get_memory_item_by_vector_id(items, vector_id)
    IN  IF item # NoRow
        THEN [found |-> TRUE, kind |-> "item", text |-> items[item].content,
              source |-> items[item].source, memory_item_id |-> item]
        ELSE [found |-> FALSE]

\* a lookup that asks memory_items before the chunk table
resolve_text_vector_id_ItemsFirst(items, table, vector_id) ==
    LET chunk == get_chunk_by_vector_id(table, vector_id)
        item == get_memory_item_by_vector_id(items, vector_id)
    IN  IF item # NoRow
        THEN [found |-> TRUE, kind |-> "item", text |-> items[item].content,
              source |-> items[item].source, memory_item_id |-> item]
        ELSE IF chunk # NoRow
        THEN [found |-> TRUE, kind |-> "chunk", text |-> table[chunk].chunk_text,
              source |-> items[table[chunk].memory_item_id].source,
              memory_item_id |-> table[chunk].memory_item_id]
        ELSE [found |-> FALSE]

resolve_text_vector_id(items, table, vector_id) ==
    LET chunk == get_chunk_by_vector_id(table, vector_id)
        item == get_memory_item_by_vector_id(items, vector_id)
    IN  IF chunk # NoRow
        THEN LET parent == get_memory_item(items, table[chunk].memory_item_id)
             IN  [found |-> TRUE, kind |-> "chunk",
                  text |-> table[chunk].chunk_text,
                  source |-> IF parent # NoRow THEN items[parent].source
                                               ELSE UnknownSource,
                  memory_item_id |-> table[chunk].memory_item_id]
        ELSE IF item # NoRow
        THEN [found |-> TRUE, kind |-> "item", text |-> items[item].content,
              source |-> items[item].source, memory_item_id |-> item]
        ELSE [found |-> FALSE]

-----------------------------------------------------------------------------
(* UnifiedStorageManager: hashing and normalisation *)

\* hashlib.sha256(value.encode(...)).hexdigest(): SHA-256 is taken to be free
\* of collisions, so the digest is known by the byte string it was made from
compute_hash(value) == <<"sha256", value>>

IsControl(c) == c = Control

\* " ".join(text.split()): whitespace runs become one blank, the ends are trimmed
RECURSIVE JoinSplit(_)
JoinSplit(text) ==
    LET t == LStrip(text)
    IN  IF t = <<>> THEN <<>>
        ELSE LET rest == Tail(t)
             IN  IF rest = <<>> THEN <<Head(t)>>
                 ELSE IF IsSpace(Head(rest))
                 THEN LET more == JoinSplit(rest)
                      IN  IF more = <<>> THEN <<Head(t)>>
                          ELSE <<Head(t), Blank>> \o more
                 ELSE <<Head(t)>> \o JoinSplit(rest)

\* _normalize_text_for_embedding(text, max_chars)
normalize_text_for_embedding(text, max_chars) ==
    LET blanked == [i \in 1..Len(text) |-> IF IsControl(text[i]) THEN Blank ELSE text[i]]
        joined == JoinSplit(blanked)
    IN  IF Len(joined) > max_chars THEN SubSeq(joined, 1, max_chars) ELSE joined

\* f"{source}|{normalized}" of ingest_text
DedupKey(source, text) == source \o <<Bar>> \o JoinSplit(text)

-----------------------------------------------------------------------------
(* UnifiedStorageManager.ingest_text *)

\* EmbeddingManager.TEXT_DIM: the width of the vectors the text model returns
EMBED_TEXT_DIM == 1024
\* EmbeddingManager.VISUAL_DIM: the width of the vectors CLIP returns
EMBED_VISUAL_DIM == 512

\* what ingest_text reads and writes: the two text tables, the text index,
\* the error counters and the warning flag, with the observers of the index
StoreState ==
    [memory_items |-> memory_items, chunks |-> chunks, text_index |-> text_index,
     ingest_error_counts |-> ingest_error_counts,
     text_embedding_warning_shown |-> text_embedding_warning_shown,
     origin |-> origin, issued |-> issued.text, occurrences |-> occurrences]

\* _text_embeddings_ready(): the answer, and the warning flag after the call
text_embeddings_ready(warning_shown) ==
    IF self_embeddings # "None" /\ text_embeddings_enabled
    THEN [ready |-> TRUE, warning_shown |-> warning_shown]
    ELSE [ready |-> FALSE, warning_shown |-> TRUE]

\* _visual_embeddings_ready()
visual_embeddings_ready(warning_shown) ==
    IF self_embeddings # "None"
    THEN [ready |-> TRUE, warning_shown |-> warning_shown]
    ELSE [ready |-> FALSE, warning_shown |-> TRUE]

\* self.embeddings.encode_text(text) followed by the np.isfinite check: the
\* call raises, or returns a (1, EMBED_TEXT_DIM) array with or without a
\* non-finite value.  `outcome` is what the model server does on this call.
encode_text(text, outcome) ==
    [raised |-> outcome \in {"raise", "raise_value"}, finite |-> outcome # "nonfinite",
     array |-> Array(2, EMBED_TEXT_DIM, <<text>>)]

\* the outcome of the n-th encode_text call (from 0) of one ingest_text call
OutcomeAt(fail, n) == IF fail.kind # "ok" /\ fail.at = n THEN fail.kind ELSE "ok"

\* encode, check, text_store.add: the exception raised ("none" if none), the
\* store after it and the vector id.  `what` is "chunk" or "text".
EmbedAndAdd(st, text, source, memory_id, what, outcome) ==
    LET e == encode_text(text, outcome)
    IN  IF e.raised
        THEN [exc |-> IF outcome = "raise" THEN "encode_text raised"
                                           ELSE "encode_text raised ValueError",
              st |-> st, vector_id |-> NULL]
        ELSE IF ~e.finite
        THEN [exc |-> IF what = "chunk" THEN "ValueError: Non-finite values in chunk embedding"
                                        ELSE "ValueError: Non-finite values in text embedding",
              st |-> st, vector_id |-> NULL]
        ELSE LET a == TextVectorStore_add(st.text_index, e.array, python_optimize)
             IN  IF a.raised
                 THEN [exc |-> "ValueError: Text embedding dim mismatch",
                       st |-> st, vector_id |-> NULL]
                 ELSE [exc |-> "none",
                       st |-> [st EXCEPT
                                 !.text_index = a.index,
                                 !.issued = @ \o a.ids,
                                 !.origin = @ \o [i \in 1..Len(a.ids) |->
                                                    [source |-> source, text |-> text,
                                                     memory_item_id |-> memory_id]]],
                       vector_id |-> a.ids[1]]

\* lines 609-619: the loop over the chunks from chunk i on
RECURSIVE IngestChunks(_, _, _, _, _, _)
IngestChunks(st, source, memory_id, list, i, fail) ==
    IF i >= Len(list) THEN [exc |-> "none", st |-> st]
    ELSE LET c == list[i + 1]
             r == EmbedAndAdd(st, c[1], source, memory_id, "chunk", OutcomeAt(fail, i))
         IN  IF r.exc # "none" THEN [exc |-> r.exc, st |-> r.st]
             ELSE IngestChunks(
                      [r.st EXCEPT !.chunks =
                           add_chunk(@, memory_id, c[1], i, c[2], c[3], r.vector_id)],
                      source, memory_id, list, i + 1, fail)

\* type(e).__name__ and str(e) of the exceptions caught by ingest_text, as
\* texts.  The embedding client raises its own error "E" with the message
\* "x", or a ValueError "V" that quotes that error: "E:x".
Colon == ":"

ExcTypeName(exc) ==
    IF exc = "encode_text raised" THEN <<"E">> ELSE <<"V">>

ExcMessage(exc) ==
    IF exc = "encode_text raised" THEN <<"x">>
    ELSE IF exc = "encode_text raised ValueError" THEN <<"E", Colon, "x">>
    ELSE IF exc = "ValueError: Non-finite values in chunk embedding" THEN <<"c">>
    ELSE IF exc = "ValueError: Non-finite values in text embedding" THEN <<"t">>
    ELSE <<"d", "i", "m", "s">>

\* a key that leaves the exception out
ErrorKey_SourceOnly(source, exc) == source

\* f"{source}:{type(e).__name__}:{str(e)[:80]}"
ErrorKey(source, exc) ==
    source \o <<Colon>> \o ExcTypeName(exc) \o <<Colon>>
           \o SubSeq(ExcMessage(exc), 1, Min(MSG_PREFIX, Len(ExcMessage(exc))))

\* a handler that always prints the full warning
Printed_Always(seen) == "warning"

\* lines 638-641: what the handler prints at the seen-th occurrence of a key
Printed(seen) ==
    IF seen <= ERROR_DETAIL_LIMIT THEN "warning"
    ELSE IF seen = ERROR_DETAIL_LIMIT + 1 THEN "suppressed"
    ELSE "none"

\* a function with one more at one argument
Incremented(counts, key) ==
    [k \in (DOMAIN counts) \cup {key} |->
        IF k = key THEN (IF key \in DOMAIN counts THEN counts[key] ELSE 0) + 1
        ELSE counts[k]]

\* lines 633-642: the except clause of ingest_text
OnIngestException_Reraise(st, source, exc) ==
    [ret |-> INGEST_ERROR, raised |-> TRUE, st |-> st, printed |-> "none"]

OnIngestException(st, source, exc) ==
    LET key == ErrorKey(source, exc)
        counts == Incremented(st.ingest_error_counts, key)
    IN  [ret |-> INGEST_ERROR, raised |-> FALSE,
         st |-> [st EXCEPT !.ingest_error_counts = counts,
                           !.occurrences = Incremented(@, <<source, exc>>)],
         printed |-> Printed(counts[key])]

\* ingest_text(text, source): [ret, raised, st, exc, hit, inserted, printed]
\*   exc       the exception caught inside the call, "none" if none
\*   hit       the content hash was found and the existing id returned
\*   inserted  a MemoryItem row was inserted by this call
ingest_text(st, text, source, fail) ==
    LET ready == text_embeddings_ready(st.text_embedding_warning_shown)
        t == normalize_text_for_embedding(text, MAX_CHARS)
        content_hash == compute_hash(DedupKey(source, t))
        existing == get_memory_item_by_hash(st.memory_items, content_hash)
        st1 == [st EXCEPT !.memory_items = add_memory_item(@, source, t, content_hash)]
        memory_id == Len(st1.memory_items)
        Quiet(s, ret, hit) ==
            [ret |-> ret, raised |-> FALSE, st |-> s, exc |-> "none",
             hit |-> hit, inserted |-> FALSE, printed |-> "none"]
        Done(r) ==
            IF r.exc = "none"
            THEN [ret |-> memory_id, raised |-> FALSE, st |-> r.st, exc |-> "none",
                  hit |-> FALSE, inserted |-> TRUE, printed |-> "none"]
            ELSE LET h == OnIngestException(r.st, source, r.exc)
                 IN  [ret |-> h.ret, raised |-> h.raised, st |-> h.st, exc |-> r.exc,
                      hit |-> FALSE, inserted |-> TRUE, printed |-> h.printed]
    IN  IF ~ready.ready
        THEN Quiet([st EXCEPT !.text_embedding_warning_shown = ready.warning_shown],
                   INGEST_ERROR, FALSE)
        ELSE IF t = <<>> THEN Quiet(st, INGEST_ERROR, FALSE)
        ELSE IF existing # NoRow THEN Quiet(st, existing, TRUE)
        ELSE IF should_chunk(t)
        THEN Done(IngestChunks(st1, source, memory_id,
                               chunk_text(t, CHUNK_SIZE_LONG, CHUNK_OVERLAP), 0, fail))
        ELSE LET r == EmbedAndAdd(st1, t, source, memory_id, "text", OutcomeAt(fail, 0))
             IN  Done([exc |-> r.exc,
                       st |-> IF r.exc = "none"
                              THEN [r.st EXCEPT !.memory_items =
                                       update_memory_item_vector_id(@, memory_id, r.vector_id)]
                              ELSE r.st])

-----------------------------------------------------------------------------
(* UnifiedStorageManager.ingest_image *)

\* the source 'image_ocr' of the text read off an image
SourceOcr == <<"o">>

\* ocr_text None, or the empty string: `if ocr_text:` is false for both
NoOcr == <<>>

\* str(n) of a small number
DecimalDigit(n) == <<"0", "1", "2", "3", "4", "5", "6", "7", "8", "9">>[n + 1]

\* str(Path(image_path).resolve()): a leading "./" is removed and the path
\* made absolute (the working directory is the root)
ResolvePath(image_path) ==
    IF Len(image_path) >= 2 /\ SubSeq(image_path, 1, 2) = <<".", "/">>
    THEN <<"/">> \o SubSeq(image_path, 3, Len(image_path))
    ELSE <<"/">> \o image_path

\* f"{image_path_resolved}|{stat.st_size}|{int(stat.st_mtime)}"; st_mtime is
\* held in tenths of a second, int() drops the fraction
ImageKey(resolved, stat) ==
    resolved \o <<Bar, DecimalDigit(stat.st_size), Bar, DecimalDigit(stat.st_mtime \div 10)>>

\* self.embeddings.encode_image(path): raises, or a (1, EMBED_VISUAL_DIM) array
encode_image(resolved, stat, outcome) ==
    [raised |-> outcome = "raise",
     array |-> Array(2, EMBED_VISUAL_DIM, <<[path |-> resolved, stat |-> stat]>>)]

\* what ingest_image reads and writes besides what ingest_text does
VisualState ==
    [visual_items |-> visual_items, visual_index |-> visual_index,
     visual_embedding_warning_shown |-> visual_embedding_warning_shown,
     issued |-> issued.visual]

\* ingest_image(image_path, ocr_text): [ret, st, vst, hit, ocr]
\*   file      what stat() finds at the path: [exists] and, if it exists,
\*             [st_size, st_mtime]
\*   ocr_text  a text, NoOcr for None or ''

\*   outcome   what encode_image does; ocr_fail is what the text model does
\*   ocr       the nested ingest_text call: [made] and, if made, its result
\* a return that hands on the failure of the OCR text
ReturnAfterOcr_TextFailure(visual_id, t) ==
    IF t.ret = INGEST_ERROR THEN INGEST_ERROR ELSE visual_id

\* lines 767-770: `return visual_id` after the ingest_text call, whose result
\* is not looked at
ReturnAfterOcr(visual_id, t) == IF t.raised THEN INGEST_ERROR ELSE visual_id

ingest_image(st, vst, image_path, file, ocr_text, outcome, ocr_fail) ==
    LET ready == visual_embeddings_ready(vst.visual_embedding_warning_shown)
        resolved == ResolvePath(image_path)
        image_hash == compute_hash(ImageKey(resolved, file))
        existing == get_visual_item_by_hash(vst.visual_items, image_hash)
        e == encode_image(resolved, file, outcome)
        a == VisualVectorStore_add(vst.visual_index, e.array, python_optimize)
        items1 == add_visual_item(vst.visual_items, resolved, ocr_text, a.ids[1], image_hash)
        visual_id == Len(items1)
        vst1 == [vst EXCEPT !.visual_items = items1, !.visual_index = a.index,
                            !.issued = @ \o a.ids]
        t == ingest_text(st, ocr_text, SourceOcr, ocr_fail)
        Error(v) == [ret |-> INGEST_ERROR, st |-> st, vst |-> v, hit |-> FALSE, ocr |-> [made |-> FALSE]]
    IN  IF ~ready.ready
        THEN Error([vst EXCEPT !.visual_embedding_warning_shown = ready.warning_shown])
        ELSE IF ~file.exists THEN Error(vst)                 \* stat() raises
        ELSE IF existing # NoRow
        THEN [ret |-> existing, st |-> st, vst |-> vst, hit |-> TRUE,
              ocr |-> [made |-> FALSE]]
        ELSE IF e.raised \/ a.raised THEN Error(vst)
        ELSE IF ocr_text = NoOcr
        THEN [ret |-> visual_id, st |-> st, vst |-> vst1, hit |-> FALSE,
              ocr |-> [made |-> FALSE]]
        ELSE [ret |-> ReturnAfterOcr(visual_id, t),
              st |-> t.st, vst |-> vst1, hit |-> FALSE,
              ocr |-> [made |-> TRUE, ret |-> t.ret, raised |-> t.raised,
                       inserted |-> t.inserted, hit |-> t.hit, text |-> ocr_text]]

-----------------------------------------------------------------------------
(* UnifiedStorageManager.search *)

\* visual_min_score (0.28 in the source), in hundredths
VISUAL_MIN_SCORE == 28

\* the two image paths, resolved
PathP == <<"/", "p">>
PathQ == <<"/", "q">>

\* The L2 distance of two text embeddings, standing for the model: the
\* number of positions at which the two texts differ.
TextDistance(query, text) ==
    Cardinality({i \in 1..Max(Len(query), Len(text)) :
                    i > Len(query) \/ i > Len(text) \/ query[i] # text[i]})

\* The inner product of a query's and an image's CLIP embeddings, in
\* hundredths, standing for the model.
VisualSimilarity(query, image) ==
    IF Head(query) = "a"
    THEN IF image.path = PathP
         THEN (IF image.stat.st_mtime < 20 THEN 90 ELSE 50)
         ELSE 20
    ELSE IF image.path = PathP THEN 50 ELSE VISUAL_MIN_SCORE

\* the distance of every vector of the text index to the query, and the
\* inner product of every vector of the visual index with it
TextDistances(query) ==
    [i \in 1..ntotal(text_index) |-> TextDistance(query, text_index.vecs[i])]
VisualSimilarities(query) ==
    [i \in 1..ntotal(visual_index) |-> VisualSimilarity(query, visual_index.vecs[i])]

\* every listing of 1..n
Perms(n) == {p \in [1..n -> 1..n] : \A i, j \in 1..n : i # j => p[i] # p[j]}

\* the listings of the vectors of an index that a flat faiss index can
\* search in: best first, vectors of equal value in any order
\* values[i] is the distance (nearest first) or the inner product (largest
\* first) of vector i to the query
BestFirstOrders(values, nearest) ==
    {p \in Perms(Len(values)) :
        \A i \in 1..(Len(values) - 1) :
            IF nearest
            THEN values[p[i]] <= values[p[i + 1]]
            ELSE values[p[i]] >= values[p[i + 1]]}

\* faiss index.search(x, k) of the Python wrapper: `assert k > 0`, then k
\* slots, the best first, the slots beyond ntotal holding the label -1.
\* Without the assert a k of 0 gives no slot.
FaissIndexSearch(values, k, order, optimize) ==
    IF k <= 0 /\ ~optimize
    THEN [raised |-> TRUE, hits |-> <<>>]
    ELSE [raised |-> FALSE,
          hits |-> [i \in 1..Max(k, 0) |->
                      IF i <= Len(order)
                      THEN [value |-> values[order[i]], idx |-> order[i] - 1]
                      ELSE [value |-> 0, idx |-> -1]]]

\* a score that grows with the distance
TextScore_Inverted(dist) == 100 - 100 \div (1 + dist)

\* score = 1.0 / (1.0 + dist), in hundredths
TextScore(dist) == 100 \div (1 + dist)

\* lines 799-820: the entry of one text hit
TextEntry(hit) ==
    LET resolved == resolve_text_vector_id(memory_items, chunks, hit.idx)
    IN  [type |-> "text", vector_id |-> hit.idx, score |-> TextScore(hit.value),
         distance |-> hit.value, resolved |-> resolved.found,
         text |-> IF resolved.found THEN resolved.text ELSE <<>>,
         source |-> IF resolved.found THEN resolved.source ELSE <<>>]

\* the hits with a valid index, in order
\* a loop without the test `if idx >= 0`
ValidHits_All(hits) == hits

\* the hits the loops over an index search keep: `if idx >= 0`
RECURSIVE ValidHits(_)
ValidHits(hits) ==
    IF hits = <<>> THEN <<>>
    ELSE (IF Head(hits).idx >= 0 THEN <<Head(hits)>> ELSE <<>>) \o ValidHits(Tail(hits))

\* line 854: the candidate takes the place of the path's current entry
Replaces_Always(current_score, score) == TRUE

Replaces(current_score, score) == score > current_score

\* lines 837-848: the candidate of one visual hit and its path key
VisualCandidate(hit) ==
    LET visual_item == get_visual_item_by_vector_id(visual_items, hit.idx)
        has_path == visual_item # NoRow /\ visual_items[visual_item].path # <<>>
    IN  [type |-> "visual", vector_id |-> hit.idx, score |-> hit.value,
         path_key |-> IF has_path THEN visual_items[visual_item].path
                                  ELSE <<"vector:", DecimalDigit(hit.idx)>>,
         resolved |-> visual_item # NoRow,
         path |-> IF visual_item # NoRow THEN visual_items[visual_item].path ELSE <<>>,
         text |-> IF visual_item # NoRow THEN visual_items[visual_item].ocr_text ELSE <<>>]

\* lines 830-855: best_by_path after the hits from hit i on, as the list of
\* its values in insertion order
RECURSIVE BestByPath(_, _, _)
BestByPath(hits, i, best) ==
    IF i > Len(hits) THEN best
    ELSE LET hit == hits[i]
             candidate == VisualCandidate(hit)
             at == {j \in 1..Len(best) : best[j].path_key = candidate.path_key}
         IN  IF hit.idx < 0 \/ hit.value < VISUAL_MIN_SCORE
             THEN BestByPath(hits, i + 1, best)
             ELSE IF at = {}
             THEN BestByPath(hits, i + 1, Append(best, candidate))
             ELSE LET j == CHOOSE j \in at : TRUE
                  IN  IF Replaces(best[j].score, candidate.score)
                      THEN BestByPath(hits, i + 1, [best EXCEPT ![j] = candidate])
                      ELSE BestByPath(hits, i + 1, best)

\* a sort that lists entries of equal score last first
RECURSIVE SortByScore_LastFirst(_)
SortByScore_LastFirst(results) ==
    IF results = <<>> THEN <<>>
    ELSE LET top == SetMax({results[i].score : i \in 1..Len(results)})
             pick == CHOOSE i \in 1..Len(results) :
                         /\ results[i].score = top
                         /\ \A j \in (i + 1)..Len(results) : results[j].score # top
         IN  <<results[pick]>> \o
             SortByScore_LastFirst(SubSeq(results, 1, pick - 1) \o
                                   SubSeq(results, pick + 1, Len(results)))

\* results.sort(key=score, reverse=True): stable, entries of equal score
\* keep their order
RECURSIVE SortByScore(_)
SortByScore(results) ==
    IF results = <<>> THEN <<>>
    ELSE LET top == SetMax({results[i].score : i \in 1..Len(results)})
             first == CHOOSE i \in 1..Len(results) :
                          /\ results[i].score = top
                          /\ \A j \in 1..(i - 1) : results[j].score # top
         IN  <<results[first]>> \o
             SortByScore(SubSeq(results, 1, first - 1) \o
                         SubSeq(results, first + 1, Len(results)))

\* results[:top_k]
TakeFirst_All(results, top_k) == results

TakeFirst(results, top_k) ==
    IF top_k >= 0 THEN SubSeq(results, 1, Min(top_k, Len(results)))
    ELSE SubSeq(results, 1, Max(0, Len(results) + top_k))

\* search(query, top_k, search_type): [raised, results, the hits of the two
\* indices, the merged list before the sort, and the two warning flags after
\* the call]
\*   encode  what the query encoders do: "ok" or "raise"
\*   torder, vorder  the order in which the two indices list their vectors
search(query, top_k, search_type, encode, torder, vorder) ==
    LET tready == text_embeddings_ready(text_embedding_warning_shown)
        vready == visual_embeddings_ready(visual_embedding_warning_shown)
        do_text == search_type \in {"text", "both"}
        do_visual == search_type \in {"visual", "both"}
        tsearch ==
            IF do_text /\ tready.ready
            THEN IF encode = "raise" THEN [raised |-> TRUE, hits |-> <<>>]
                 ELSE FaissIndexSearch(TextDistances(query), top_k, torder, python_optimize)
            ELSE [raised |-> FALSE, hits |-> <<>>]
        vsearch ==
            IF do_visual /\ vready.ready
            THEN IF encode = "raise" THEN [raised |-> TRUE, hits |-> <<>>]
                 ELSE FaissIndexSearch(VisualSimilarities(query), top_k, vorder, python_optimize)
            ELSE [raised |-> FALSE, hits |-> <<>>]
        text_hits == ValidHits(tsearch.hits)
        text_results == [i \in 1..Len(text_hits) |-> TextEntry(text_hits[i])]
        visual_results == BestByPath(vsearch.hits, 1, <<>>)
        flags == [text |-> IF do_text THEN tready.warning_shown
                                      ELSE text_embedding_warning_shown,
                  visual |-> IF do_visual /\ ~tsearch.raised
                             THEN vready.warning_shown
                             ELSE visual_embedding_warning_shown]
    IN  IF tsearch.raised \/ vsearch.raised
        THEN [raised |-> TRUE, results |-> <<>>, visual_hits |-> <<>>,
              text_hits |-> <<>>, merged |-> <<>>, flags |-> flags]
        ELSE [raised |-> FALSE,
              results |-> TakeFirst(SortByScore(text_results \o visual_results), top_k),
              visual_hits |-> ValidHits(vsearch.hits),
              text_hits |-> text_hits,
              merged |-> text_results \o visual_results,
              flags |-> flags]

-----------------------------------------------------------------------------
(* The storage manager as a process: one action per public call *)

\* the dimension of a text index written by an earlier embedding model
LEGACY_TEXT_DIM == 384

\* a validation that does not compare the two dimensions
validate_text_embedding_dimension_NoCheck(loaded, index, probe) ==
    /\ loaded # "None"
    /\ probe # "raise"

\* _init_embeddings and _validate_text_embedding_dimension: whether text
\* embeddings end up enabled.  `probe` is what the probe encode_text call does.
validate_text_embedding_dimension(loaded, index, probe) ==
    /\ loaded # "None"
    /\ probe # "raise"
    /\ EMBED_TEXT_DIM = index.d

\* the texts handed to ingest_text, and the OCR texts of images
TextA == <<"a">>
TextAControl == <<"a", Control, Blank>>
TextLong == <<"a", "b", Blank, Blank, "a", "b">>
TextOnlyControl == <<Control>>
TextB == <<"b">>
Texts == {TextA, TextAControl, TextB, TextLong, TextOnlyControl}

SourceBrowser == <<"b">>
Sources == {SourceBrowser, SourceOcr}

\* what the embedding server does during one ingest_text call: every encode
\* succeeds, or the encode call number `at` raises or returns a non-finite value
Fails ==
    {[kind |-> "ok", at |-> 0]}
    \cup {[kind |-> k, at |-> n] : k \in {"raise", "nonfinite"}, n \in 0..(MaxFailAt - 1)}

\* __init__: empty tables; the text index is new, or was read from a file
\* written with LEGACY_TEXT_DIM; the models loaded or not
\* The interpreter runs with assert statements enabled.
Init ==
    /\ ChunkIdle
    /\ python_optimize = FALSE
    /\ memory_items = <<>>
    /\ chunks = <<>>
    /\ visual_items = <<>>
    /\ self_embeddings \in {"loaded", "None"}
    /\ \E d \in {TEXT_DIM, LEGACY_TEXT_DIM} :
          /\ text_index = NewIndex(d)
          /\ disk = [text |-> IF d = TEXT_DIM THEN NoFile ELSE IndexFile(NewIndex(d)),
                     visual |-> NoFile]
          /\ \E probe \in {"ok", "raise"} :
                text_embeddings_enabled =
                    validate_text_embedding_dimension(self_embeddings, NewIndex(d), probe)
    /\ visual_index = NewIndex(VISUAL_DIM)
    /\ text_embedding_warning_shown = FALSE
    /\ visual_embedding_warning_shown = FALSE
    /\ ingest_error_counts = <<>>
    /\ last = [op |-> "none"]
    /\ issued = [text |-> <<>>, visual |-> <<>>]
    /\ origin = <<>>
    /\ returned = {}
    /\ discarded = FALSE
    /\ occurrences = <<>>

\* the ids ingest_text has returned, after a call that returned `ret`
Returned(ret, inserted) ==
    IF ret = INGEST_ERROR THEN returned
    ELSE returned \cup {[id |-> ret, by_insert |-> inserted]}

\* the store written back
SetStore(st) ==
    /\ memory_items' = st.memory_items
    /\ chunks' = st.chunks
    /\ text_index' = st.text_index
    /\ ingest_error_counts' = st.ingest_error_counts
    /\ text_embedding_warning_shown' = st.text_embedding_warning_shown
    /\ origin' = st.origin
    /\ issued' = [issued EXCEPT !.text = st.issued]
    /\ occurrences' = st.occurrences

\* ingest_text(text, source), in a store of at most max_items MemoryItem rows
IngestTextUpTo(text, source, fail, max_items) ==
    \E r \in {ingest_text(StoreState, text, source, fail)} :
        /\ Len(r.st.memory_items) <= max_items
        /\ ntotal(r.st.text_index) <= MaxVectors
        /\ SetStore(r.st)
        /\ returned' = Returned(r.ret, r.inserted)
        /\ last' = [op |-> "ingest_text", text |-> text, source |-> source,
                    ret |-> r.ret, raised |-> r.raised, exc |-> r.exc,
                    hit |-> r.hit, inserted |-> r.inserted, printed |-> r.printed,
                    repeat |-> /\ last.op = "ingest_text"
                               /\ last.text = text
                               /\ last.source = source,
                    after_failure |-> last.op = "ingest_text" /\ last.exc # "none"]
        /\ UNCHANGED <<visual_index, python_optimize, visual_items, self_embeddings,
                       text_embeddings_enabled, visual_embedding_warning_shown, disk,
                       discarded>>
        /\ UNCHANGED chunk_vars

\* ingest_text(text, source)
IngestText(text, source, fail) == IngestTextUpTo(text, source, fail, MaxItems)

\* save(): both indices are written to their files
Save ==
    /\ disk' = [text |-> IndexFile(text_index), visual |-> IndexFile(visual_index)]
    /\ last' = [op |-> "save"]
    /\ UNCHANGED <<text_index, visual_index, python_optimize, issued>>
    /\ UNCHANGED <<self_embeddings, text_embeddings_enabled, text_embedding_warning_shown,
                   visual_embedding_warning_shown, ingest_error_counts, origin, returned,
                   discarded, occurrences>>
    /\ UNCHANGED <<chunk_vars, meta_vars>>

Next ==
    \/ \E text \in Texts, fail \in Fails : IngestText(text, SourceBrowser, fail)
    \/ Save

Spec == Init /\ [][Next]_vars

-----------------------------------------------------------------------------
(* Ingestion of texts and images with searches in between *)

\* the images handed to ingest_image: a file under two spellings of its path,
\* written at 1.0 s and rewritten at 2.0 s, absent at times, and another file
\* with text on it
FileP1 == [exists |-> TRUE, st_size |-> 1, st_mtime |-> 10]
FileP2 == [exists |-> TRUE, st_size |-> 1, st_mtime |-> 20]
Images ==
    {[path |-> <<"p">>, file |-> FileP1, ocr_text |-> NoOcr],
     [path |-> <<".", "/", "p">>, file |-> FileP2, ocr_text |-> NoOcr],
     [path |-> <<"p">>, file |-> [exists |-> FALSE], ocr_text |-> NoOcr],
     [path |-> <<"q">>, file |-> FileP1, ocr_text |-> TextB]}

\* the embedding failures injected between searches
SearchFails == {f \in Fails : f.kind = "ok" \/ (f.kind = "raise" /\ f.at = 1)}

Queries == {TextA, TextB}

SearchTypes == {"text", "visual", "both"}

\* ingest_image(image_path, ocr_text)
IngestImage(image_path, file, ocr_text, outcome, ocr_fail) ==
    \E r \in {ingest_image(StoreState, VisualState, image_path, file, ocr_text,
                           outcome, ocr_fail)} :
        /\ Len(r.st.memory_items) <= MaxItems
        /\ ntotal(r.st.text_index) <= MaxVectors
        /\ Len(r.vst.visual_items) <= MaxVisual
        /\ memory_items' = r.st.memory_items
        /\ chunks' = r.st.chunks
        /\ text_index' = r.st.text_index
        /\ ingest_error_counts' = r.st.ingest_error_counts
        /\ text_embedding_warning_shown' = r.st.text_embedding_warning_shown
        /\ origin' = r.st.origin
        /\ occurrences' = r.st.occurrences
        /\ visual_items' = r.vst.visual_items
        /\ visual_index' = r.vst.visual_index
        /\ visual_embedding_warning_shown' = r.vst.visual_embedding_warning_shown
        /\ issued' = [text |-> r.st.issued, visual |-> r.vst.issued]
        /\ last' = [op |-> "ingest_image", resolved |-> ResolvePath(image_path),
                    file |-> file, ret |-> r.ret, hit |-> r.hit, ocr |-> r.ocr,
                    repeat |-> /\ last.op = "ingest_image"
                               /\ last.resolved = ResolvePath(image_path)
                               /\ last.file = file]
        /\ UNCHANGED <<python_optimize, self_embeddings, text_embeddings_enabled,
                       disk, returned, discarded>>
        /\ UNCHANGED chunk_vars

\* search(query, top_k, search_type)
Search(query, top_k, search_type, encode) ==
    \E torder \in BestFirstOrders(TextDistances(query), TRUE),
       vorder \in BestFirstOrders(VisualSimilarities(query), FALSE) :
    \E r \in {search(query, top_k, search_type, encode, torder, vorder)} :
        /\ text_embedding_warning_shown' = r.flags.text
        /\ visual_embedding_warning_shown' = r.flags.visual
        /\ last' = [op |-> "search", query |-> query, top_k |-> top_k,
                    search_type |-> search_type, raised |-> r.raised,
                    results |-> r.results, visual_hits |-> r.visual_hits,
                    text_hits |-> r.text_hits, merged |-> r.merged]
        /\ UNCHANGED <<text_index, visual_index, python_optimize, issued>>
        /\ UNCHANGED <<self_embeddings, text_embeddings_enabled, ingest_error_counts,
                       disk, origin, returned, discarded, occurrences>>
        /\ UNCHANGED <<chunk_vars, meta_vars>>

NextSearch ==
    \/ \E fail \in SearchFails : IngestText(TextLong, SourceBrowser, fail)
    \/ \E image \in Images, outcome \in {"ok", "raise"} :
          IngestImage(image.path, image.file, image.ocr_text, outcome,
                      [kind |-> "ok", at |-> 0])
    \/ \E query \in Queries, top_k \in 0..MaxTopK, search_type \in SearchTypes,
          encode \in {"ok", "raise"} :
          Search(query, top_k, search_type, encode)

SpecSearch == Init /\ [][NextSearch]_vars

\* ingestion of texts with every embedding failure, saves, and text searches
NextResolve ==
    \/ \E text \in {TextA, TextAControl, TextLong}, fail \in Fails :
          IngestText(text, SourceBrowser, fail)
    \/ \E query \in Queries, top_k \in 0..MaxTopK, search_type \in {"text", "both"},
          encode \in {"ok", "raise"} :
          Search(query, top_k, search_type, encode)
    \/ Save

SpecResolve == Init /\ [][NextResolve]_vars

-----------------------------------------------------------------------------
(* Crash and restart: the process ends without save() and a new manager is
   constructed on the files it left *)

\* TextVectorStore.__init__ / VisualVectorStore.__init__: the index is read
\* from its file if there is one, else created with the configured dimension
LoadIndex(file, dimension) ==
    IF file.exists THEN file.index ELSE NewIndex(dimension)

\* The process is killed between two calls and UnifiedStorageManager() is
\* constructed again.  The tables are as committed; the indices are those of
\* the files; the flags and counters of the manager start afresh; the models
\* load as they did before and the probe encode call succeeds or not.
\* A process killed inside ingest_text leaves what a call that failed at that
\* point leaves: the rows committed so far, and no file written.
Restart ==
    /\ text_index' = LoadIndex(disk.text, TEXT_DIM)
    /\ visual_index' = LoadIndex(disk.visual, VISUAL_DIM)
    /\ self_embeddings' = self_embeddings
    /\ \E probe \in {"ok", "raise"} :
          text_embeddings_enabled' =
              validate_text_embedding_dimension(self_embeddings', text_index', probe)
    /\ text_embedding_warning_shown' = FALSE
    /\ visual_embedding_warning_shown' = FALSE
    /\ ingest_error_counts' = <<>>
    /\ issued' = [text |-> <<>>, visual |-> <<>>]
    /\ origin' = SubSeq(origin, 1, ntotal(text_index'))
    /\ discarded' = (discarded \/ text_index' # text_index)
    /\ occurrences' = <<>>
    /\ last' = [op |-> "restart",
                lost_text |-> ntotal(text_index) - ntotal(text_index'),
                lost_visual |-> ntotal(visual_index) - ntotal(visual_index')]
    /\ UNCHANGED <<python_optimize, disk, returned>>
    /\ UNCHANGED <<chunk_vars, meta_vars>>

\* the images ingested between crashes
CrashImages ==
    {[path |-> <<"p">>, file |-> FileP1, ocr_text |-> NoOcr],
     [path |-> <<"q">>, file |-> FileP1, ocr_text |-> TextB]}

NextCrash ==
    \/ \E text \in {TextA, TextLong}, fail \in SearchFails :
          IngestText(text, SourceBrowser, fail)
    \/ \E image \in CrashImages, outcome \in {"ok", "raise"} :
          IngestImage(image.path, image.file, image.ocr_text, outcome,
                      [kind |-> "ok", at |-> 0])
    \/ Save
    \/ Restart

SpecCrash == Init /\ [][NextCrash]_vars

-----------------------------------------------------------------------------
(* Ingestion of long texts: a failure at every chunk *)

\* a text of three chunks
TextLong3 == <<"a", "b", Blank, "a", "b", "a">>

\* every encode succeeds, or the encode call of chunk 0 .. MaxFailAt fails
LongFails ==
    {[kind |-> "ok", at |-> 0]}
    \cup {[kind |-> k, at |-> n] : k \in {"raise", "nonfinite"}, n \in 0..MaxFailAt}

NextLong ==
    \/ \E text \in {TextA, TextLong, TextLong3}, fail \in LongFails :
          IngestText(text, SourceBrowser, fail)
    \/ Save

SpecLong == Init /\ [][NextLong]_vars

-----------------------------------------------------------------------------
(* A run of ingest_text calls that fail: the embedding client is down *)

\* the texts of the run, in the order in which the caller hands them over
ErrorTexts ==
    << <<"a">>, <<"b">>, <<"a", "a">>, <<"a", "b">>, <<"b", "a">>, <<"b", "b">>,
       <<"a", "a", "a">> >>

\* a source tag, and one that holds the separator of the error key
SourceColon == <<"b", Colon, "V">>
ErrorSources == {SourceBrowser, SourceColon}

\* the client raises its own error, or a ValueError quoting it, or works
ErrorFails == {[kind |-> k, at |-> 0] : k \in {"ok", "raise", "raise_value"}}

NextErrors ==
    \E source \in ErrorSources, fail \in ErrorFails :
        /\ Len(memory_items) < Len(ErrorTexts)
        /\ IngestTextUpTo(ErrorTexts[Len(memory_items) + 1], source, fail, MaxErrorItems)

SpecErrors == Init /\ [][NextErrors]_vars

-----------------------------------------------------------------------------
(* Ingestion of texts at and around the chunking threshold *)

\* texts of exactly CHUNK_SIZE_LONG characters and of one more
TextAtLimit == [i \in 1..CHUNK_SIZE_LONG |-> "a"]
TextOverLimit == [i \in 1..(CHUNK_SIZE_LONG + 1) |-> "a"]

\* every call succeeds, or one of its encode calls raises
RouteFails == {f \in Fails : f.kind # "nonfinite"}

NextRoute ==
    \E text \in {TextA, TextAtLimit, TextOverLimit, TextLong}, fail \in RouteFails :
        IngestText(text, SourceBrowser, fail)

SpecRoute == Init /\ [][NextRoute]_vars

-----------------------------------------------------------------------------
(* Ingestion of texts under sources that hold the separator of the hash key *)

SourceBar == <<"b", Bar, "a">>
TextBar == <<"a", Bar, "a">>
BarSources == {SourceBrowser, SourceBar}
BarTexts == {TextA, TextBar, TextAControl}

NextSources ==
    \E text \in BarTexts, source \in BarSources, fail \in ErrorFails :
        IngestText(text, source, fail)

SpecSources == Init /\ [][NextSources]_vars

-----------------------------------------------------------------------------
(* Searches for more results than the text index holds *)

\* a text far from the queries, and two images without text
TextFar == <<"a", "a", "a">>
BeyondImages ==
    {[path |-> <<"p">>, file |-> FileP1, ocr_text |-> NoOcr],
     [path |-> <<"r">>, file |-> FileP1, ocr_text |-> NoOcr]}

NextBeyond ==
    \/ \E text \in {TextA, TextFar} :
          IngestText(text, SourceBrowser, [kind |-> "ok", at |-> 0])
    \/ \E image \in BeyondImages :
          IngestImage(image.path, image.file, image.ocr_text, "ok",
                      [kind |-> "ok", at |-> 0])
    \/ \E query \in Queries, top_k \in 1..(MaxTopK + 1), search_type \in {"text", "both"} :
          Search(query, top_k, search_type, "ok")

SpecBeyond == Init /\ [][NextBeyond]_vars

-----------------------------------------------------------------------------
(* Lookups by vector id in tables written before and after a crash *)

\* metadata_store.resolve_text_vector_id(vector_id)
ResolveTextVectorId(vector_id) ==
    /\ last' = [op |-> "resolve", vector_id |-> vector_id,
                result |-> resolve_text_vector_id(memory_items, chunks, vector_id)]
    /\ UNCHANGED <<text_index, visual_index, python_optimize, issued>>
    /\ UNCHANGED manager_vars
    /\ UNCHANGED <<chunk_vars, meta_vars>>

\* the vector ids asked for: those an index of MaxVectors vectors issues, the
\* -1 of an unfilled slot and one beyond
VectorIds == -1..MaxVectors

NextLookup ==
    \/ \E text \in {TextA, TextLong}, source \in Sources :
          IngestText(text, source, [kind |-> "ok", at |-> 0])
    \/ Save
    \/ Restart
    \/ \E vector_id \in VectorIds : ResolveTextVectorId(vector_id)

SpecLookup == Init /\ [][NextLookup]_vars

-----------------------------------------------------------------------------
(* UnifiedStorageManager.ingest_browser_data *)

Slash == "/"
Hash == "#"
\* str.isalnum() on the characters used here
IsAlnum(c) == c \in {"a", "b", "h", "p", "q"}

\* str.split(): the maximal runs of characters that are not whitespace
RECURSIVE SplitTokens(_)
SplitTokens(s) ==
    LET t == LStrip(s)
    IN  IF t = <<>> THEN <<>>
        ELSE LET n == CHOOSE n \in 1..Len(t) :
                          /\ \A i \in 1..n : ~IsSpace(t[i])
                          /\ n = Len(t) \/ IsSpace(t[n + 1])
             IN  <<SubSeq(t, 1, n)>> \o SplitTokens(SubSeq(t, n + 1, Len(t)))

\* " ".join(parts)
RECURSIVE JoinBlank(_)
JoinBlank(parts) ==
    IF parts = <<>> THEN <<>>
    ELSE IF Len(parts) = 1 THEN parts[1]
    ELSE parts[1] \o <<Blank>> \o JoinBlank(Tail(parts))

\* " ".join(p for p in parts if p)
JoinParts(parts) ==
    LET NonEmpty(part) == part # <<>>
    IN  JoinBlank(SelectSeq(parts, NonEmpty))

\* the number of alphanumeric characters of a token
RECURSIVE AlnumCount(_)
AlnumCount(token) ==
    IF token = <<>> THEN 0
    ELSE (IF IsAlnum(Head(token)) THEN 1 ELSE 0) + AlnumCount(Tail(token))

\* a token _filter_noisy_tokens drops: very long, or long and symbol-heavy
\* (alnum_count / len < 0.55)
NoisyToken(token) ==
    \/ Len(token) > NOISY_TOKEN_LEN
    \/ /\ Len(token) >= SYMBOL_TOKEN_LEN
       /\ AlnumCount(token) * 100 < 55 * Len(token)

\* _filter_noisy_tokens(text)
filter_noisy_tokens(text) ==
    LET Kept(token) == ~NoisyToken(token)
    IN  JoinBlank(SelectSeq(SplitTokens(text), Kept))

\* a URL as urlparse sees it: absent, one that urlparse rejects with
\* ValueError (an unbalanced bracket in the host), one of a scheme that
\* carries a payload, or one with a host and a path
NoUrl == [kind |-> "none", host |-> <<>>, path |-> <<>>]
InvalidUrl == [kind |-> "invalid", host |-> <<>>, path |-> <<>>]
PayloadUrl == [kind |-> "payload", host |-> <<>>, path |-> <<"a">>]
WebUrl == [kind |-> "web", host |-> <<"h">>, path |-> <<Slash, "p">>]

\* _compact_url_for_embedding(raw_url): [raised, text]
compact_url_for_embedding(url) ==
    IF url.kind = "none" THEN [raised |-> FALSE, text |-> <<>>]
    ELSE IF url.kind = "invalid" THEN [raised |-> TRUE, text |-> <<>>]
    ELSE IF url.kind = "payload" THEN [raised |-> FALSE, text |-> <<>>]
    ELSE LET path == JoinSplit([i \in 1..Len(url.path) |->
                                   IF url.path[i] \in {Slash, "-", "_"} THEN Blank
                                   ELSE url.path[i]])
             compact == Strip(url.host \o <<Blank>> \o path)
         IN  [raised |-> FALSE,
              text |-> SubSeq(compact, 1, Min(URL_COMPACT_MAX, Len(compact)))]

\* _build_browser_search_text(item): [raised, text]
build_browser_search_text(item) ==
    LET title == normalize_text_for_embedding(item.title, BROWSER_TITLE_MAX)
        search_query == normalize_text_for_embedding(item.search_query, BROWSER_QUERY_MAX)
        url_compact == compact_url_for_embedding(item.url)
        text == filter_noisy_tokens(JoinParts(<<title, search_query, url_compact.text>>))
    IN  IF url_compact.raised THEN [raised |-> TRUE, text |-> <<>>]
        ELSE [raised |-> FALSE,
              text |-> normalize_text_for_embedding(text, BROWSER_TEXT_MAX)]

\* _build_browser_fallback_text(item)
build_browser_fallback_text(item) ==
    LET title == normalize_text_for_embedding(item.title, FALLBACK_TITLE_MAX)
        search_query == normalize_text_for_embedding(item.search_query, FALLBACK_QUERY_MAX)
    IN  normalize_text_for_embedding(JoinParts(<<title, search_query>>), FALLBACK_TEXT_MAX)

\* one pass of the loop over the records.  `acc` holds the store, the locals
\* count, skipped and processed, the ingest_text calls made so far and
\* whether an exception has left the loop; `i` is the position of the record.
\* lines 708-718: the locals after the ingest_text calls r1 (primary text)
\* and, if it was made, r2 (fallback text)
AfterIngest(seen, i, text, r1, fallback_text, r2) ==
    LET tried == r1.ret = INGEST_ERROR /\ fallback_text # <<>>
        memory_id == IF tried THEN r2.ret ELSE r1.ret
        first == [item |-> i, which |-> "primary", text |-> text,
                  ret |-> r1.ret, inserted |-> r1.inserted]
        second == [item |-> i, which |-> "fallback", text |-> fallback_text,
                   ret |-> r2.ret, inserted |-> r2.inserted]
    IN  [seen EXCEPT !.st = IF tried THEN r2.st ELSE r1.st,
                     !.attempts = @ \o (IF tried THEN <<first, second>> ELSE <<first>>),
                     !.count = IF memory_id # INGEST_ERROR THEN @ + 1 ELSE @,
                     !.skipped = IF memory_id # INGEST_ERROR THEN @ ELSE @ + 1]

\* lines 709-712: the fallback call, made or not
IngestFallback(seen, i, text, r1, fallback_text, fallback_fail) ==
    CHOOSE after \in
        {AfterIngest(seen, i, text, r1, fallback_text, r2) :
            r2 \in {ingest_text(r1.st, fallback_text, SourceBrowser, fallback_fail)}} : TRUE

\* lines 708-718: the calls for one record with a primary text
IngestRecord(seen, i, text, rec) ==
    CHOOSE after \in
        {IngestFallback(seen, i, text, r1, fallback_text, rec.fallback_fail) :
            r1 \in {ingest_text(seen.st, text, SourceBrowser, rec.fail)},
            fallback_text \in {build_browser_fallback_text(rec.item)}} : TRUE

\* lines 699-718: the loop body; every intermediate result is bound once
BrowserRecord(acc, rec, i) ==
    CHOOSE out \in
        {IF ~rec.item.is_dict THEN a
         ELSE IF built.raised THEN [a EXCEPT !.processed = @ + 1, !.raised = TRUE]
         ELSE IF built.text = <<>>
         THEN [a EXCEPT !.processed = @ + 1, !.skipped = @ + 1]
         ELSE IngestRecord([a EXCEPT !.processed = @ + 1], i, built.text, rec) :
            a \in {acc}, built \in {build_browser_search_text(rec.item)}} : TRUE

\* the loop `for item in data`, left at once by an exception
RECURSIVE BrowserRecords(_, _, _)
BrowserRecords(acc, data, i) ==
    CHOOSE out \in
        {IF i > Len(data) \/ a.raised THEN a
         ELSE BrowserRecords(BrowserRecord(a, data[i], i), data, i + 1) :
            a \in {acc}} : TRUE

\* ingest_browser_data on a file holding the list `data`:
\* [ret, aborted, st, count, skipped, processed, attempts]
ingest_browser_data(st, data) ==
    CHOOSE out \in
        {[ret |-> IF done.raised THEN 0 ELSE done.count,
          aborted |-> done.raised, st |-> done.st, count |-> done.count,
          skipped |-> done.skipped, processed |-> done.processed,
          attempts |-> done.attempts] :
            done \in {BrowserRecords([st |-> st, count |-> 0, skipped |-> 0,
                                      processed |-> 0, attempts |-> <<>>,
                                      raised |-> FALSE], data, 1)}} : TRUE

\* the records of a browser file, each with what the embedding server does
\* during its ingest_text calls
Item(title, search_query, url) ==
    [is_dict |-> TRUE, title |-> title, search_query |-> search_query, url |-> url]
NotADict == [is_dict |-> FALSE, title |-> <<>>, search_query |-> <<>>, url |-> NoUrl]
BrowserItems ==
    {Item(<<"a">>, <<>>, NoUrl),
     Item(<<"b">>, <<>>, WebUrl),
     Item(<<>>, <<>>, WebUrl),
     Item(<<"a">>, <<>>, InvalidUrl),
     Item(<<>>, <<>>, PayloadUrl),
     Item(<<"a", Hash, Hash>>, <<>>, NoUrl),
     Item(<<"a">>, <<"q">>, NoUrl),
     NotADict}
Input(item, kind, fallback_kind) ==
    [item |-> item, fail |-> [kind |-> kind, at |-> 0],
     fallback_fail |-> [kind |-> fallback_kind, at |-> 0]]
BrowserInputs ==
    {Input(item, "ok", "ok") : item \in BrowserItems}
    \cup {Input(Item(<<"a">>, <<>>, NoUrl), "raise", f) : f \in {"ok", "raise"}}
    \cup {Input(Item(<<"b">>, <<>>, WebUrl), "raise", f) : f \in {"ok", "raise"}}
    \cup {Input(Item(<<>>, <<>>, WebUrl), "raise", "ok")}

\* ingest_browser_data(json_path), with the save() at its end
IngestBrowserData(data) ==
    \E r \in {ingest_browser_data(StoreState, data)} :
        /\ SetStore(r.st)
        /\ returned' = returned \cup
                {[id |-> r.attempts[j].ret, by_insert |-> r.attempts[j].inserted] :
                    j \in {k \in DOMAIN r.attempts : r.attempts[k].ret # INGEST_ERROR}}
        /\ disk' = IF r.aborted THEN disk
                   ELSE [text |-> IndexFile(r.st.text_index),
                         visual |-> IndexFile(visual_index)]
        /\ last' = [op |-> "ingest_browser_data", data |-> data, ret |-> r.ret,
                    aborted |-> r.aborted, count |-> r.count, skipped |-> r.skipped,
                    processed |-> r.processed, attempts |-> r.attempts]
        /\ UNCHANGED <<visual_index, python_optimize, visual_items, self_embeddings,
                       text_embeddings_enabled, visual_embedding_warning_shown,
                       discarded>>
        /\ UNCHANGED chunk_vars

\* a new manager reads one file
NextBrowser ==
    /\ last.op = "none"
    /\ \E data \in SeqsUpTo(BrowserInputs, MaxRecords) : IngestBrowserData(data)

SpecBrowser == Init /\ [][NextBrowser]_vars

-----------------------------------------------------------------------------
(* Ingestion of images alone: every spelling, file state and failure *)

\* the file rewritten within the second in which FileP1 was written
FileP1Touched == [exists |-> TRUE, st_size |-> 1, st_mtime |-> 15]

ImagePaths == {<<"p">>, <<".", "/", "p">>, <<"q">>}

ImageFiles == {FileP1, FileP1Touched, FileP2, [exists |-> FALSE]}

NextImage ==
    \E image_path \in ImagePaths, file \in ImageFiles, ocr_text \in {NoOcr, TextB},
       outcome \in {"ok", "raise"},
       ocr_fail \in {f \in Fails : f.at = 0 /\ f.kind # "nonfinite"} :
        IngestImage(image_path, file, ocr_text, outcome, ocr_fail)

SpecImage == Init /\ [][NextImage]_vars

-----------------------------------------------------------------------------
(* Properties of ingest_text *)

HasVector(id) == memory_items[id].vector_id # NULL
HasChunks(id) == \E c \in 1..Len(chunks) : chunks[c].memory_item_id = id

\* C1 as stated: when ingest_text is called twice in a row with the same
\* (source, text), the second call returns the id the first returned, and
\* the count of the text index after the second call is the count after the
\* first.
C1_SameIdBothCalls ==
    [][ (last'.op = "ingest_text" /\ last'.repeat)
          => /\ last'.ret = last.ret
             /\ ntotal(text_index') = ntotal(text_index) ]_vars

\* C1, amended: the second of two ingest_text calls in a row with the same
\* (source, text) never changes the text index or the tables.  It returns
\* what the first call returned, except when an embedding failure made the
\* first call return -1 after it had inserted the row: then the second call
\* finds that row by its hash and returns its id, without embedding it.
C1_SecondCallAddsNothing ==
    [][ (last'.op = "ingest_text" /\ last'.repeat)
          => /\ text_index' = text_index
             /\ memory_items' = memory_items
             /\ chunks' = chunks
             /\ (last.exc = "none" => last'.ret = last.ret)
             /\ (last.exc # "none"
                   => /\ last.ret = INGEST_ERROR
                      /\ last'.hit
                      /\ last'.ret = Len(memory_items)) ]_vars

\* the second call returned the id of the row the first, failed call left
C1_Witness ==
    /\ last.op = "ingest_text"
    /\ last.repeat
    /\ last.hit
    /\ last.ret = Len(memory_items)
    /\ ~HasVector(last.ret)
    /\ ntotal(text_index) > 0

\* C2 as stated: every MemoryItem whose id ingest_text has returned has a
\* vector_id or has chunk rows, and not both.
C2_ExactlyOneForReturned ==
    \A r \in returned : HasVector(r.id) # HasChunks(r.id)

\* C2, amended: every MemoryItem whose id was returned by the call that
\* inserted it has a vector_id or has chunk rows, and not both; no
\* MemoryItem at all has both; an id returned for a row that has neither
\* was returned by a later call that found the row by its hash.
C2_ExactlyOneForIngested ==
    /\ \A r \in returned : r.by_insert => (HasVector(r.id) # HasChunks(r.id))
    /\ \A id \in 1..Len(memory_items) : ~(HasVector(id) /\ HasChunks(id))
    /\ \A r \in returned :
          (~HasVector(r.id) /\ ~HasChunks(r.id))
             => (~r.by_insert /\ [id |-> r.id, by_insert |-> TRUE] \notin returned)

\* a short item with its vector, a chunked item with its chunks, both returned
\* by the calls that inserted them
C2_Witness ==
    \E r1, r2 \in returned :
        /\ r1.by_insert /\ HasVector(r1.id) /\ ~HasChunks(r1.id)
        /\ r2.by_insert /\ HasChunks(r2.id) /\ ~HasVector(r2.id)

\* C9: an ingest_text call during which the embedding call raises or
\* returns a non-finite value returns -1 and raises nothing; no ingest_text
\* call raises; and the call that follows a failed one, when it is for
\* another item and its own embedding calls succeed, inserts the item under
\* the next id with its vector or its chunks.
C9_ErrorIsolation ==
    /\ last.op = "ingest_text" => ~last.raised
    /\ (last.op = "ingest_text" /\ last.exc # "none") => last.ret = INGEST_ERROR
    /\ (last.op = "ingest_text" /\ last.after_failure /\ ~last.hit
            /\ last.inserted /\ last.exc = "none")
          => /\ last.ret = Len(memory_items)
             /\ HasVector(last.ret) # HasChunks(last.ret)
             /\ [id |-> last.ret, by_insert |-> TRUE] \in returned

\* after a call that failed on a non-finite embedding, the next call
\* ingested another item
C9_Witness ==
    /\ last.op = "ingest_text"
    /\ last.after_failure
    /\ last.inserted
    /\ last.exc = "none"
    /\ last.ret = 2
    /\ ~HasVector(1) /\ ~HasChunks(1)
    /\ \E k \in DOMAIN occurrences :
          k[2] = "ValueError: Non-finite values in text embedding"

-----------------------------------------------------------------------------
(* Properties of search *)

Searched == last.op = "search" /\ ~last.raised

\* the results of the last search that are of the given type
ResultsOfType(type) == {i \in 1..Len(last.results) : last.results[i].type = type}

\* C4: every text result of a search resolves: resolve_text_vector_id of its
\* vector id is not None, and the source and the text it gives, which are
\* those of the result, are the source and the text that were embedded into
\* the vector with that id, for the item the vector was added for.
C4_ResolveRoundTrip ==
    Searched =>
        \A i \in ResultsOfType("text") :
            LET result == last.results[i]
                resolved == resolve_text_vector_id(memory_items, chunks, result.vector_id)
                embedded == origin[result.vector_id + 1]
            IN  /\ result.vector_id \in 0..(ntotal(text_index) - 1)
                /\ resolved.found
                /\ resolved.source = embedded.source
                /\ resolved.text = embedded.text
                /\ resolved.memory_item_id = embedded.memory_item_id
                /\ result.resolved
                /\ result.source = embedded.source
                /\ result.text = embedded.text

\* a search after a save returned a chunk and a whole item, the chunk being
\* of an item whose ingestion failed at a later chunk
C4_Witness ==
    /\ Searched
    /\ disk.text.exists
    /\ DOMAIN ingest_error_counts # {}
    /\ \E i, j \in ResultsOfType("text") :
          /\ get_chunk_by_vector_id(chunks, last.results[i].vector_id) # NoRow
          /\ get_memory_item_by_vector_id(memory_items, last.results[j].vector_id) # NoRow

\* the path of the VisualItem of a vector of the visual index
PathOfVector(idx) == visual_items[get_visual_item_by_vector_id(visual_items, idx)].path

\* C5: no two visual results of a search have the same path, and the score
\* of a visual result is the highest score among the vectors of its path
\* that the visual index search returned.
C5_VisualDedupByPath ==
    Searched =>
        /\ \A i, j \in ResultsOfType("visual") :
              i # j => last.results[i].path # last.results[j].path
        /\ \A i \in ResultsOfType("visual") :
              LET result == last.results[i]
                  same_path == {h \in 1..Len(last.visual_hits) :
                                   PathOfVector(last.visual_hits[h].idx) = result.path}
              IN  /\ result.resolved
                  /\ result.path = PathOfVector(result.vector_id)
                  /\ same_path # {}
                  /\ result.score = SetMax({last.visual_hits[h].value : h \in same_path})

\* the visual index returned two vectors of one path with different scores,
\* and the search one result for the path
C5_Witness ==
    /\ Searched
    /\ last.search_type = "both"
    /\ Len(last.visual_hits) = 2
    /\ PathOfVector(last.visual_hits[1].idx) = PathOfVector(last.visual_hits[2].idx)
    /\ last.visual_hits[1].value > last.visual_hits[2].value
    /\ last.visual_hits[2].value >= VISUAL_MIN_SCORE
    /\ Cardinality(ResultsOfType("visual")) = 1
    /\ \E i \in ResultsOfType("visual") : last.results[i].score = last.visual_hits[1].value

\* C6: a search called with top_k >= 0 returns at most top_k results, in
\* every mode, the results of the two indices counted together.
C6_AtMostTopK ==
    (Searched /\ last.top_k >= 0) => Len(last.results) <= last.top_k

\* a search of both indices with top_k = 1: the text index holds a vector,
\* the visual index returned a hit above the floor, one result is returned
C6_Witness ==
    /\ Searched
    /\ last.search_type = "both"
    /\ last.top_k = 1
    /\ ntotal(text_index) >= 1
    /\ Len(last.visual_hits) = 1
    /\ last.visual_hits[1].value >= VISUAL_MIN_SCORE
    /\ Len(last.results) = 1

-----------------------------------------------------------------------------
(* Properties of ingest_image *)

\* two ingest_image calls in a row for one resolved path with the file's size
\* and mtime unchanged
SameImageTwice ==
    /\ last.op = "ingest_image"
    /\ last'.op = "ingest_image"
    /\ last'.resolved = last.resolved
    /\ last'.file = last.file

\* C11 as stated: the second of two ingest_image calls for the same resolved
\* path with unchanged size and mtime returns what the first returned, and
\* adds no vector to the visual index and no visual_items row
C11_SecondImageCallAddsNothing ==
    [][SameImageTwice =>
          /\ last'.ret = last.ret
          /\ visual_index' = visual_index
          /\ visual_items' = visual_items]_vars

\* C11, amended: when the first of the two calls returned a visual-item id,
\* the second returns the same id and adds no vector and no visual_items row;
\* a second call after a first one that returned -1 either returns -1 and
\* adds nothing, or ingests the image: one vector and one row
C11_SecondCallOfIngestedImage ==
    [][SameImageTwice =>
          IF last.ret # INGEST_ERROR
          THEN /\ last'.ret = last.ret
               /\ last'.hit
               /\ visual_index' = visual_index
               /\ visual_items' = visual_items
          ELSE \/ /\ last'.ret = INGEST_ERROR
                  /\ visual_index' = visual_index
                  /\ visual_items' = visual_items
               \/ /\ last'.ret = Len(visual_items')
                  /\ ~last'.hit
                  /\ ntotal(visual_index') = ntotal(visual_index) + 1
                  /\ Len(visual_items') = Len(visual_items) + 1]_vars

\* the second of two calls for one image has returned the id of the row the
\* first one inserted, the index holding the one vector of the first call
C11_Witness ==
    /\ last.op = "ingest_image"
    /\ last.repeat
    /\ last.hit
    /\ last.ret = 1
    /\ Len(visual_items) = 1
    /\ ntotal(visual_index) = 1
    /\ visual_items[1].path = last.resolved

-----------------------------------------------------------------------------
(* Properties of the order of the results *)

\* the position in the merged list of the entry of a result
MergedPosition(result) ==
    CHOOSE i \in 1..Len(last.merged) : last.merged[i] = result

\* the place of a visual entry's path among the hits of the visual index: the
\* first hit of that path that passes the score floor
FirstHitOfPath(entry) ==
    CHOOSE h \in 1..Len(last.visual_hits) :
        /\ last.visual_hits[h].value >= VISUAL_MIN_SCORE
        /\ PathOfVector(last.visual_hits[h].idx) = entry.path
        /\ \A g \in 1..(h - 1) :
              \/ last.visual_hits[g].value < VISUAL_MIN_SCORE
              \/ PathOfVector(last.visual_hits[g].idx) # entry.path

\* C12: the list returned by search is sorted by non-increasing score in every
\* mode; results of equal score keep the order of the merged list, in which
\* the text results come before the visual results and, within a modality,
\* the results are in the order in which the index returned them
C12_FinalOrdering ==
    Searched =>
        LET n == Len(last.results)
            texts == {i \in 1..Len(last.merged) : last.merged[i].type = "text"}
        IN  /\ \A i \in 1..n : \E k \in 1..Len(last.merged) : last.merged[k] = last.results[i]
            /\ \A i, j \in 1..n :
                  i < j =>
                    /\ last.results[i].score >= last.results[j].score
                    /\ (last.results[i].score = last.results[j].score
                          => MergedPosition(last.results[i]) < MergedPosition(last.results[j]))
            /\ texts = 1..Len(last.text_hits)
            /\ \A i \in texts : last.merged[i].vector_id = last.text_hits[i].idx
            /\ \A i, j \in (1..Len(last.merged)) \ texts :
                  i < j => FirstHitOfPath(last.merged[i]) < FirstHitOfPath(last.merged[j])

\* a search of both indices has returned a text result and a visual result of
\* equal score, the text result first
C12_Witness ==
    /\ Searched
    /\ last.search_type = "both"
    /\ Len(last.results) = 2
    /\ last.results[1].score = last.results[2].score
    /\ last.results[1].type = "text"
    /\ last.results[2].type = "visual"
    /\ Len(last.merged) = 2

-----------------------------------------------------------------------------
(* Properties of the text score *)

\* C13: the score of a text result is 1/(1+distance); of two non-negative
\* distances d1 <= d2 the score of d1 is at least the score of d2, and every
\* text score is greater than 0 and at most 1 (100 hundredths).  Stated of the
\* text results of every search and of every distance up to MaxDistance.
C13_ScoreMonotone ==
    /\ \A d1, d2 \in 0..MaxDistance :
          /\ d1 <= d2 => TextScore(d1) >= TextScore(d2)
          /\ 0 < TextScore(d1) /\ TextScore(d1) <= 100
    /\ Searched =>
          \A i, j \in ResultsOfType("text") :
              /\ last.results[i].distance >= 0
              /\ last.results[i].score = TextScore(last.results[i].distance)
              /\ last.results[i].score > 0
              /\ last.results[i].score <= 100
              /\ (last.results[i].distance <= last.results[j].distance
                    => last.results[i].score >= last.results[j].score)

\* a search has returned an exact match, of score 1, before a text at a
\* greater distance, of a lower score
C13_Witness ==
    /\ Searched
    /\ Len(last.results) = 2
    /\ last.results[1].type = "text"
    /\ last.results[2].type = "text"
    /\ last.results[1].distance = 0
    /\ last.results[1].score = 100
    /\ last.results[2].distance > 0
    /\ last.results[2].score < 100

-----------------------------------------------------------------------------
(* Properties of the start-up dimension check *)

\* the text model's output dimension differs from that of the loaded index
DimensionMismatch == text_index.d # EMBED_TEXT_DIM

\* C14: when at construction the text model's output dimension differs from
\* the dimension of the loaded text index, every later ingest_text call
\* returns -1 and leaves the metadata store and the text index unchanged
C14_MismatchRefusesIngestion ==
    [][DimensionMismatch =>
          /\ text_index' = text_index
          /\ memory_items' = memory_items
          /\ chunks' = chunks
          /\ visual_items' = visual_items
          /\ ~text_embeddings_enabled'
          /\ (last'.op = "ingest_text" => last'.ret = INGEST_ERROR /\ ~last'.inserted)]_vars

\* a manager whose model was loaded on an index of another dimension has
\* refused an ingest_text call, after having refused one before
C14_Witness ==
    /\ DimensionMismatch
    /\ text_index.d = LEGACY_TEXT_DIM
    /\ self_embeddings = "loaded"
    /\ last.op = "ingest_text"
    /\ last.repeat
    /\ last.ret = INGEST_ERROR
    /\ text_embedding_warning_shown
    /\ memory_items = <<>>
    /\ ntotal(text_index) = 0

-----------------------------------------------------------------------------
(* Properties of the errors of search *)

\* C15: search never raises to its caller; when embeddings are unavailable or
\* the query embedding call fails, search returns an empty result list.
\* Stated of the searches that ask for at least one result.
\* Violated: search has no exception handler, so the exception of a failing
\* query embedding call reaches the caller.
C15_SearchNeverRaises ==
    (last.op = "search" /\ last.top_k >= 1) =>
        /\ ~last.raised
        /\ (self_embeddings = "None" => last.results = <<>>)

\* the part of C15 that holds: without a raise, a search of an index whose
\* model is unavailable or disabled returns no result of that index
C15_UnavailableGivesNothing ==
    Searched =>
        /\ (self_embeddings = "None" => last.results = <<>>)
        /\ (~text_embeddings_enabled => ResultsOfType("text") = {})

-----------------------------------------------------------------------------
(* Properties of the chunk rows *)

\* the Chunk rows of a MemoryItem
ChunksOf(id) == {c \in 1..Len(chunks) : chunks[c].memory_item_id = id}

\* C16: after any sequence of ingest_text calls, also with embedding
\* failures part-way through a chunked item, the chunk_index values of the
\* Chunk rows of each MemoryItem are exactly 0..k-1 for some k: no gap, no
\* duplicate
C16_ContiguousChunkIndices ==
    \A id \in 1..Len(memory_items) :
        /\ {chunks[c].chunk_index : c \in ChunksOf(id)} = 0..(Cardinality(ChunksOf(id)) - 1)
        /\ \A c1, c2 \in ChunksOf(id) :
              c1 < c2 => chunks[c1].chunk_index < chunks[c2].chunk_index

\* the embedding of the third chunk of an item has failed: the call returned
\* -1 and the item is left with its first two chunks
C16_Witness ==
    /\ last.op = "ingest_text"
    /\ last.inserted
    /\ last.ret = INGEST_ERROR
    /\ last.exc # "none"
    /\ Cardinality(ChunksOf(Len(memory_items))) = 2
    /\ \E c \in ChunksOf(Len(memory_items)) : chunks[c].chunk_index = 1

-----------------------------------------------------------------------------
(* Properties of a failed ingest_text call *)

\* C17: an ingest_text call that returns -1 has added no vector to the text
\* index and no Chunk row to the metadata store, also when the failure
\* happens on a later chunk of a chunked item.
\* Violated: the chunks before the failing one keep their vectors and rows.
C17_FailedCallAddsNothing ==
    [][(last'.op = "ingest_text" /\ last'.ret = INGEST_ERROR) =>
          /\ text_index' = text_index
          /\ chunks' = chunks]_vars

\* what does hold of a call that returns -1: the vectors and the Chunk rows
\* it added are those of the chunks before the failing one, one row per
\* vector, and a call that fails at its first embedding adds none
C17_FailedCallKeepsItsFirstChunks ==
    [][(last'.op = "ingest_text" /\ last'.ret = INGEST_ERROR) =>
          /\ ntotal(text_index') - ntotal(text_index) = Len(chunks') - Len(chunks)
          /\ SubSeq(chunks', 1, Len(chunks)) = chunks
          /\ \A c \in (Len(chunks) + 1)..Len(chunks') :
                /\ chunks'[c].memory_item_id = Len(memory_items')
                /\ chunks'[c].vector_id = ntotal(text_index) + (c - Len(chunks)) - 1]_vars

-----------------------------------------------------------------------------
(* Properties of the vector ids across saves and restarts *)

\* the rows of the text tables, and of visual_items, that hold a vector id
TextRowsOf(id) ==
    {[table |-> "chunks", row |-> c] : c \in {c \in 1..Len(chunks) : chunks[c].vector_id = id}}
    \cup {[table |-> "memory_items", row |-> i] :
              i \in {i \in 1..Len(memory_items) : memory_items[i].vector_id = id}}

VisualRowsOf(id) == {v \in 1..Len(visual_items) : visual_items[v].vector_id = id}

\* C18: after any sequence of ingest_text, ingest_image, save and
\* crash-restart steps, every vector id of a persisted index is referenced by
\* at least one metadata row: a Chunk or MemoryItem row for the text index, a
\* VisualItem row for the visual index.  The same holds of the indices in
\* memory between two calls.
C18_NoOrphanVectors ==
    /\ disk.text.exists =>
          \A id \in 0..(ntotal(disk.text.index) - 1) : TextRowsOf(id) # {}
    /\ disk.visual.exists =>
          \A id \in 0..(ntotal(disk.visual.index) - 1) : VisualRowsOf(id) # {}
    /\ \A id \in 0..(ntotal(text_index) - 1) : TextRowsOf(id) # {}
    /\ \A id \in 0..(ntotal(visual_index) - 1) : VisualRowsOf(id) # {}

\* a restart has discarded text vectors added after the last save, the files
\* holding text vectors and a visual vector written before
C18_Witness ==
    /\ last.op = "restart"
    /\ last.lost_text >= 1
    /\ disk.text.exists
    /\ ntotal(disk.text.index) >= 1
    /\ disk.visual.exists
    /\ ntotal(disk.visual.index) >= 1
    /\ Len(chunks) >= 2

\* the vector ids held by the rows of the two text tables
TextVectorIds ==
    {chunks[c].vector_id : c \in 1..Len(chunks)}
    \cup ({memory_items[i].vector_id : i \in 1..Len(memory_items)} \ {NULL})

\* no text vector id is held by two rows, and every one is an id of the index
UniqueJoinKey ==
    /\ \A id \in TextVectorIds : Cardinality(TextRowsOf(id)) = 1
    /\ \A id \in TextVectorIds : id < ntotal(text_index)

\* C20 as stated: after any sequence of ingest_text, save and crash-restart
\* steps, no text vector id is referenced by more than one row of the chunks
\* and memory_items tables together, and no row references a vector id
\* greater than or equal to the count of the text index
C20_UniqueJoinKeyAfterCrash == UniqueJoinKey

\* C20, amended: the vector id is a unique join key, and every referenced id
\* is below the index count, as long as no restart has read a text index file
\* older than the index in memory; and in every state, the rows of the vectors
\* of the index that came after the last restart hold different ids
C20_UniqueJoinKeyUnlessDiscarded ==
    /\ ~discarded => UniqueJoinKey
    /\ \A i, j \in 1..Len(issued.text) : i # j => issued.text[i] # issued.text[j]
    /\ \A i \in 1..Len(issued.text) :
          /\ issued.text[i] < ntotal(text_index)
          /\ TextRowsOf(issued.text[i]) # {}

\* a process was restarted right after a save, nothing discarded, and has
\* ingested another text since: three vectors, each with its one row
C20_Witness ==
    /\ ~discarded
    /\ last.op = "ingest_text"
    /\ ntotal(text_index) = 3
    /\ Len(issued.text) = 1
    /\ issued.text[1] = 2
    /\ UniqueJoinKey
    /\ Cardinality(TextVectorIds) = 3

-----------------------------------------------------------------------------
(* Properties of a dedup hit on an item without a vector *)

\* a MemoryItem row whose first ingestion failed after the row was inserted:
\* no vector_id and no Chunk row
Unrepaired(id) == ~HasVector(id) /\ ~HasChunks(id)

\* the texts that ingest_text hashes to the content_hash of a row
SameKey(id, text) ==
    compute_hash(DedupKey(memory_items[id].source,
                          normalize_text_for_embedding(text, MAX_CHARS)))
        = memory_items[id].content_hash

\* C19: when a MemoryItem row has no vector_id and no child chunks, every
\* later ingest_text call with the same (source, text) returns that row's id
\* without calling the embedder (whatever its next call would do) and without
\* changing the text index or the metadata store, and the item stays without
\* a vector and without chunks under every further ingest_text call
C19_DedupHitNeverRepairs ==
    [][\A id \in 1..Len(memory_items) :
          Unrepaired(id) =>
            /\ memory_items'[id].vector_id = NULL
            /\ \A c \in 1..Len(chunks') : chunks'[c].memory_item_id # id
            /\ (last'.op = "ingest_text"
                   /\ last'.source = memory_items[id].source
                   /\ SameKey(id, last'.text))
                 => /\ last'.ret = id
                    /\ last'.hit
                    /\ last'.exc = "none"
                    /\ text_index' = text_index
                    /\ memory_items' = memory_items
                    /\ chunks' = chunks
                    /\ ingest_error_counts' = ingest_error_counts
                    /\ \A fail \in {f \in Fails : f.at = 0} :
                          ingest_text(StoreState, last'.text, last'.source, fail)
                            = [ret |-> id, raised |-> FALSE, st |-> StoreState,
                               exc |-> "none", hit |-> TRUE, inserted |-> FALSE,
                               printed |-> "none"]]_vars

\* the first item was left without a vector by a failed call, another item
\* was ingested since, and a call for the first item's text has returned its
\* id: the item is still without a vector
C19_Witness ==
    /\ last.op = "ingest_text"
    /\ last.hit
    /\ last.ret = 1
    /\ Unrepaired(1)
    /\ Len(memory_items) = 2
    /\ HasVector(2)
    /\ ingest_error_counts # <<>>

-----------------------------------------------------------------------------
(* Properties of the order of the chunks *)

\* a long text was chunked with an overlap that is positive after clamping
ChunkedWithOverlap ==
    ChunkedLongText /\ ClampOverlap(ct_overlap, ct_chunk_size) > 0

\* C21 as stated: with a clamped overlap > 0, consecutive chunks i and i+1 of
\* the returned list satisfy start(i+1) < end(i) and start(i+1) > start(i)
C21_OverlapOrdering ==
    ChunkedWithOverlap =>
        \A i \in 1..(Len(ct_chunks) - 1) :
            /\ ct_chunks[i + 1][2] < ct_chunks[i][3]
            /\ ct_chunks[i + 1][2] > ct_chunks[i][2]

\* C21, amended: with a clamped overlap > 0, consecutive chunks of the
\* returned list have strictly increasing starts, and chunk i+1 starts before
\* the end of chunk i unless a window between them was discarded: then chunk
\* i+1 starts after the window that followed chunk i, and every position from
\* that window's start up to the start of chunk i+1 holds whitespace
C21_OverlapOrderingOfKeptWindows ==
    ChunkedWithOverlap =>
        \A i \in 1..(Len(ct_chunks) - 1) :
            LET following == NextStart(ct_chunks[i][2], ct_chunks[i][3],
                                       ClampOverlap(ct_overlap, ct_chunk_size))
            IN  /\ ct_chunks[i + 1][2] > ct_chunks[i][2]
                /\ following < ct_chunks[i][3]
                /\ \/ ct_chunks[i + 1][2] = following
                   \/ /\ ct_chunks[i + 1][2] > following
                      /\ \A p \in following..(ct_chunks[i + 1][2] - 1) :
                            IsSpace(ct_text[p + 1])

\* three chunks of a long text, each starting inside the one before it
C21_Witness ==
    /\ ChunkedWithOverlap
    /\ Len(ct_chunks) >= 3
    /\ \A i \in 1..(Len(ct_chunks) - 1) :
          /\ ct_chunks[i][2] < ct_chunks[i + 1][2]
          /\ ct_chunks[i + 1][2] < ct_chunks[i][3]

-----------------------------------------------------------------------------
(* Properties of the chunk texts *)

\* C22 as stated: for every input text, also one of length <= chunk_size, the
\* empty text and a text of whitespace only, every tuple returned by
\* chunk_text has a chunk text that is non-empty after trimming whitespace
C22_NoEmptyChunks ==
    ChunkReturned =>
        \A i \in 1..Len(ct_chunks) : Strip(ct_chunks[i][1]) # <<>>

\* C22, amended: for a text longer than chunk_size every returned chunk text
\* is non-empty and trimmed; a text of length <= chunk_size is returned as
\* it is, as the one chunk (text, 0, len(text)), which is empty after trimming
\* exactly when the text is empty or holds whitespace only
C22_NoEmptyChunksOfLongText ==
    /\ ChunkedLongText =>
          \A i \in 1..Len(ct_chunks) :
              /\ ct_chunks[i][1] # <<>>
              /\ ~IsSpace(ct_chunks[i][1][1])
              /\ ~IsSpace(ct_chunks[i][1][Len(ct_chunks[i][1])])
    /\ (ChunkReturned /\ Len(ct_text) <= ct_chunk_size) =>
          ct_chunks = << <<ct_text, 0, Len(ct_text)>> >>

\* a long text was chunked and a window of whitespace was left out: fewer
\* chunks than windows, none of them empty
C22_Witness ==
    /\ ChunkedLongText
    /\ Len(ct_chunks) >= 2
    /\ \E p \in 0..(Len(ct_text) - 1) : ~Covered(p)
    /\ \A i \in 1..Len(ct_chunks) : ct_chunks[i][1] # <<>>

-----------------------------------------------------------------------------
(* Properties of the reporting of ingestion errors *)

\* the last call was an ingest_text call that caught an exception
FailedIngest == last.op = "ingest_text" /\ last.exc # "none"

\* the sum of a function over a finite part of its domain
RECURSIVE SumOf(_, _)
SumOf(f, S) ==
    IF S = {} THEN 0
    ELSE LET x == CHOOSE x \in S : TRUE IN f[x] + SumOf(f, S \ {x})

\* C23 as stated: for each error signature (source, exception type, first
\* characters of the message) the full warning is printed at its 1st to 3rd
\* occurrence only, the suppression notice at its 4th, and nothing from its
\* 5th on; the counters of different signatures are independent
C23_RateLimitPerSignature ==
    FailedIngest =>
        LET nth == occurrences[<<last.source, last.exc>>]
        IN  last.printed = IF nth <= 3 THEN "warning"
                           ELSE IF nth = 4 THEN "suppressed" ELSE "none"

\* C23, amended: the counter is held per formatted key
\* "source:type:message prefix".  A failing call adds one to the counter of
\* its key and leaves every other counter as it is; it prints the full
\* warning when the counter is then 1 to 3, the suppression notice when it is
\* 4, and nothing from 5 on.  No counter decreases, and a call that catches
\* nothing prints nothing.  The counter of a key is the number of occurrences
\* of all signatures that are formatted to it.
C23_RateLimitPerKey ==
    /\ [][last'.op = "ingest_text" =>
            /\ \A key \in DOMAIN ingest_error_counts :
                  /\ key \in DOMAIN ingest_error_counts'
                  /\ ingest_error_counts'[key] >= ingest_error_counts[key]
            /\ IF last'.exc = "none"
               THEN /\ ingest_error_counts' = ingest_error_counts
                    /\ last'.printed = "none"
               ELSE LET key == ErrorKey(last'.source, last'.exc)
                        seen == ingest_error_counts'[key]
                    IN  /\ ingest_error_counts' = Incremented(ingest_error_counts, key)
                        /\ last'.printed = IF seen <= 3 THEN "warning"
                                           ELSE IF seen = 4 THEN "suppressed"
                                           ELSE "none"]_vars
    /\ [](\A key \in DOMAIN ingest_error_counts :
            ingest_error_counts[key] =
                SumOf(occurrences,
                      {s \in DOMAIN occurrences : ErrorKey(s[1], s[2]) = key}))

\* the fifth failure of one key has printed nothing, after a failure of
\* another key that was counted apart
C23_Witness ==
    /\ FailedIngest
    /\ last.printed = "none"
    /\ ingest_error_counts[ErrorKey(last.source, last.exc)] = 5
    /\ occurrences[<<last.source, last.exc>>] = 5

\* two signatures share a key: the first occurrence of one of them was
\* reported with the suppression notice
C23_SharedKeyWitness ==
    /\ FailedIngest
    /\ occurrences[<<last.source, last.exc>>] = 1
    /\ last.printed = "suppressed"

-----------------------------------------------------------------------------
(* Properties of the ingestion of a browser file *)

BrowserCall == last.op = "ingest_browser_data"

\* the positions of the dict records of the last file
DictRecords == {i \in DOMAIN last.data : last.data[i].item.is_dict}

\* the ingest_text calls of the last file made for record i with text `which`
AttemptsOf(i, which) ==
    {j \in DOMAIN last.attempts :
        last.attempts[j].item = i /\ last.attempts[j].which = which}

\* what the loop owes to every dict record: the primary text, if there is
\* one, is handed to ingest_text once; the fallback text, if there is one, is
\* handed to ingest_text once when the primary call returned -1 and not
\* otherwise; the calls are made in the order of the records
EveryRecordAttempted ==
    /\ \A i \in DictRecords :
          LET built == build_browser_search_text(last.data[i].item)
              fallback_text == build_browser_fallback_text(last.data[i].item)
          IN  /\ Cardinality(AttemptsOf(i, "primary")) =
                     IF built.text # <<>> THEN 1 ELSE 0
              /\ \A j \in AttemptsOf(i, "primary") :
                     /\ last.attempts[j].text = built.text
                     /\ Cardinality(AttemptsOf(i, "fallback")) =
                            IF last.attempts[j].ret = INGEST_ERROR /\ fallback_text # <<>>
                            THEN 1 ELSE 0
              /\ \A j \in AttemptsOf(i, "fallback") :
                     /\ last.attempts[j].text = fallback_text
                     /\ j > 1
                     /\ last.attempts[j - 1].item = i
                     /\ last.attempts[j - 1].which = "primary"
    /\ \A j, k \in DOMAIN last.attempts :
          j < k => last.attempts[j].item <= last.attempts[k].item
    /\ \A j \in DOMAIN last.attempts : last.attempts[j].item \in DictRecords

\* the count returned is the number of dict records one of whose ingest_text
\* calls returned an id, and count + skipped is the number of dict records
CountsEveryRecord ==
    /\ last.ret = last.count
    /\ last.count + last.skipped = Cardinality(DictRecords)
    /\ last.processed = Cardinality(DictRecords)
    /\ last.count =
          Cardinality({i \in DictRecords :
              \E j \in DOMAIN last.attempts :
                  last.attempts[j].item = i /\ last.attempts[j].ret # INGEST_ERROR})

\* C24 as stated: ingest_browser_data never aborts on a record: for any
\* list of records and any pattern of ingest_text failures every dict record
\* is attempted in order, the fallback text is tried once after a primary
\* call that returned -1, and the count returned, with skipped, accounts for
\* every dict record
C24_BatchNeverAborts ==
    BrowserCall => ~last.aborted /\ EveryRecordAttempted /\ CountsEveryRecord

\* C24 for files whose URLs urlparse accepts: the same, whatever the
\* embedding calls do
C24_BatchOfParsableRecords ==
    (BrowserCall /\ \A i \in DictRecords : last.data[i].item.url.kind # "invalid")
        => ~last.aborted /\ EveryRecordAttempted /\ CountsEveryRecord

\* a file of two records: the first fails at both texts, the second is
\* ingested at its fallback text
C24_Witness ==
    /\ BrowserCall
    /\ ~last.aborted
    /\ Len(last.attempts) = 4
    /\ last.attempts[2].ret = INGEST_ERROR
    /\ last.attempts[3].ret = INGEST_ERROR
    /\ last.attempts[4].ret # INGEST_ERROR
    /\ last.ret = 1
    /\ last.skipped = 1

\* a record whose URL is rejected ends the call: 0 is returned although the
\* record before it was ingested
C24_AbortWitness ==
    /\ BrowserCall
    /\ last.aborted
    /\ last.ret = 0
    /\ last.count = 1

-----------------------------------------------------------------------------
(* Properties of the resolution of a text vector id *)

\* the Chunk rows and the MemoryItem rows that hold vector id v
ChunkRowsWith(v) ==
    {c \in DOMAIN chunks : chunks[c].vector_id # NULL /\ chunks[c].vector_id = v}
ItemRowsWith(v) ==
    {i \in DOMAIN memory_items :
        memory_items[i].vector_id # NULL /\ memory_items[i].vector_id = v}

\* C25: resolve_text_vector_id(v) returns a chunk's text with the source of
\* its parent whenever a Chunk row holds v, also when a MemoryItem row holds
\* v as well; it returns a MemoryItem's content only when no Chunk row holds
\* v; it returns None only when no row of either table holds v
C25_ChunkTableFirst ==
    last.op = "resolve" =>
        LET v == last.vector_id
            r == last.result
        IN  /\ ChunkRowsWith(v) # {} =>
                  /\ r.found
                  /\ r.kind = "chunk"
                  /\ \E c \in ChunkRowsWith(v) :
                        /\ r.text = chunks[c].chunk_text
                        /\ chunks[c].memory_item_id \in DOMAIN memory_items
                        /\ r.source = memory_items[chunks[c].memory_item_id].source
                        /\ r.memory_item_id = chunks[c].memory_item_id
            /\ (ChunkRowsWith(v) = {} /\ ItemRowsWith(v) # {}) =>
                  /\ r.found
                  /\ r.kind = "item"
                  /\ \E i \in ItemRowsWith(v) :
                        /\ r.text = memory_items[i].content
                        /\ r.source = memory_items[i].source
            /\ ~r.found <=> (ChunkRowsWith(v) = {} /\ ItemRowsWith(v) = {})

\* a vector id held by a Chunk row and by a MemoryItem row of another
\* source was resolved to the chunk
C25_Witness ==
    /\ last.op = "resolve"
    /\ \E c \in ChunkRowsWith(last.vector_id), i \in ItemRowsWith(last.vector_id) :
          memory_items[i].source # memory_items[chunks[c].memory_item_id].source
    /\ last.result.found
    /\ last.result.kind = "chunk"

-----------------------------------------------------------------------------
(* Properties of a search for more results than the text index holds *)

\* the last call searched the text index for more vectors than it holds
SearchedBeyondIndex ==
    /\ Searched
    /\ last.search_type \in {"text", "both"}
    /\ self_embeddings # "None" /\ text_embeddings_enabled
    /\ last.top_k > ntotal(text_index)

\* no result has a negative vector id, and the text results hold distinct
\* ids of vectors of the text index
NoUnfilledSlot ==
    /\ \A i \in DOMAIN last.results : last.results[i].vector_id >= 0
    /\ \A i \in ResultsOfType("text") :
          last.results[i].vector_id \in 0..(ntotal(text_index) - 1)
    /\ \A i, j \in ResultsOfType("text") :
          i # j => last.results[i].vector_id # last.results[j].vector_id

\* C26 as stated: when the text index holds n vectors and search is called
\* with top_k > n, no result has a vector id below 0, every text vector id
\* returned is in 0..n-1 and appears once, and the number of text results
\* is min(top_k, n), which is n
C26_UnfilledSlotsFiltered ==
    SearchedBeyondIndex =>
        /\ NoUnfilledSlot
        /\ Cardinality(ResultsOfType("text")) = ntotal(text_index)

\* C26, amended: as stated for a search of the text index alone.  In a
\* search of both indices the n text entries are merged with the visual
\* entries and the first top_k of the sorted list are returned, so the text
\* results are those n entries less the ones that fell behind position top_k.
C26_UnfilledSlotsFilteredTextSearch ==
    SearchedBeyondIndex =>
        /\ NoUnfilledSlot
        /\ Len(last.text_hits) = ntotal(text_index)
        /\ Len(last.merged) - Len(last.results) =
              Max(0, Len(last.merged) - last.top_k)
        /\ last.search_type = "text" =>
              Cardinality(ResultsOfType("text")) = ntotal(text_index)
        /\ Cardinality(ResultsOfType("text")) >=
              ntotal(text_index) - (Len(last.merged) - Len(last.results))

\* a text search for two results in an index of one vector returned one
C26_Witness ==
    /\ SearchedBeyondIndex
    /\ last.search_type = "text"
    /\ ntotal(text_index) = 1
    /\ last.top_k = 2
    /\ Len(last.results) = 1
    /\ last.results[1].vector_id = 0

\* a search of both indices for more results than the text index holds
\* returned fewer text results than the text index holds
C26_DisplacedWitness ==
    /\ SearchedBeyondIndex
    /\ last.search_type = "both"
    /\ Cardinality(ResultsOfType("text")) < ntotal(text_index)

-----------------------------------------------------------------------------
(* Properties of the routing of a text to one vector or to chunks *)

\* the last call inserted a new item and returned its id
IngestedNew == last.op = "ingest_text" /\ last.inserted /\ last.ret # INGEST_ERROR

\* C27: a successful ingest_text of a new item whose normalized text is not
\* longer than CHUNK_SIZE_LONG adds exactly one vector, sets the id of that
\* vector as the item's vector_id and creates no Chunk row; for a longer
\* normalized text it adds one vector and one Chunk row per chunk that
\* chunk_text returns, each row holding the id its own add returned, and
\* leaves the item's vector_id NULL
C27_ChunkOrNotRouting ==
    [][IngestedNew' =>
        LET t == normalize_text_for_embedding(last'.text, MAX_CHARS)
            id == last'.ret
            n == ntotal(text_index)
            added == SubSeq(issued'.text, Len(issued.text) + 1, Len(issued'.text))
            list == chunk_text(t, CHUNK_SIZE_LONG, CHUNK_OVERLAP)
        IN  /\ id = Len(memory_items')
            /\ Len(memory_items') = Len(memory_items) + 1
            /\ ntotal(text_index') = n + Len(added)
            /\ IF Len(t) <= CHUNK_SIZE_LONG
               THEN /\ Len(added) = 1
                    /\ memory_items'[id].vector_id = added[1]
                    /\ added[1] = n
                    /\ chunks' = chunks
               ELSE /\ Len(added) = Len(list)
                    /\ Len(chunks') = Len(chunks) + Len(list)
                    /\ SubSeq(chunks', 1, Len(chunks)) = chunks
                    /\ \A k \in 1..Len(list) :
                          LET row == chunks'[Len(chunks) + k]
                          IN  /\ row.memory_item_id = id
                              /\ row.chunk_text = list[k][1]
                              /\ row.vector_id = added[k]
                              /\ added[k] = n + k - 1
                    /\ memory_items'[id].vector_id = NULL]_vars

\* a text of CHUNK_SIZE_LONG + 1 characters was ingested as two chunks after
\* a text of CHUNK_SIZE_LONG characters was ingested as one vector
C27_Witness ==
    /\ IngestedNew
    /\ Len(normalize_text_for_embedding(last.text, MAX_CHARS)) = CHUNK_SIZE_LONG + 1
    /\ Len(memory_items) = 2
    /\ Len(memory_items[1].content) = CHUNK_SIZE_LONG
    /\ memory_items[1].vector_id = 0
    /\ memory_items[2].vector_id = NULL
    /\ Len(chunks) = 2
    /\ \A c \in DOMAIN chunks : chunks[c].memory_item_id = 2 /\ chunks[c].vector_id = c

-----------------------------------------------------------------------------
(* Properties of the text read off an image *)

\* the MemoryItem row of the key (source 'image_ocr', text), or NoRow
OcrRow(items, text) ==
    get_memory_item_by_hash(items,
        compute_hash(DedupKey(SourceOcr,
                              normalize_text_for_embedding(text, MAX_CHARS))))

\* C28: ingest_image of a new image with a non-empty ocr_text hands the text
\* to ingest_text under the source 'image_ocr' after the visual item is
\* stored, and returns the id of the visual item whether that call succeeds,
\* fails or finds the text ingested already; when the image is found by its
\* hash no text is ingested
C28_OcrRouting ==
    [][last'.op = "ingest_image" =>
        /\ visual_items' # visual_items =>
              /\ Len(visual_items') = Len(visual_items) + 1
              /\ SubSeq(visual_items', 1, Len(visual_items)) = visual_items
              /\ ~last'.hit
              /\ last'.ret = Len(visual_items')
              /\ last'.ocr.made <=> visual_items'[last'.ret].ocr_text # NoOcr
              /\ last'.ocr.made =>
                    LET text == last'.ocr.text
                        before == OcrRow(memory_items, text)
                        after == OcrRow(memory_items', text)
                    IN  /\ visual_items'[last'.ret].ocr_text = text
                        /\ last'.ocr.hit <=> before # NoRow
                        /\ last'.ocr.hit =>
                              /\ last'.ocr.ret = before
                              /\ memory_items' = memory_items
                              /\ text_index' = text_index
                        /\ last'.ocr.inserted =>
                              /\ after = Len(memory_items')
                              /\ Len(memory_items') = Len(memory_items) + 1
                              /\ memory_items'[after].source = SourceOcr
                              /\ last'.ocr.ret \in {after, INGEST_ERROR}
                        /\ (~last'.ocr.hit /\ ~last'.ocr.inserted) =>
                              /\ last'.ocr.ret = INGEST_ERROR
                              /\ memory_items' = memory_items
              /\ ~last'.ocr.made =>
                    memory_items' = memory_items /\ text_index' = text_index
        /\ visual_items' = visual_items =>
              /\ ~last'.ocr.made
              /\ memory_items' = memory_items
              /\ text_index' = text_index
        /\ last'.hit =>
              /\ ~last'.ocr.made
              /\ last'.ret \in DOMAIN visual_items
              /\ visual_items' = visual_items
              /\ memory_items' = memory_items
              /\ chunks' = chunks
              /\ text_index' = text_index]_vars

\* a new image with text has been ingested and the id of its visual item
\* returned: its text was embedded, failed at its embedding, or was found
\* ingested already
OcrOutcome(kind) ==
    /\ last.op = "ingest_image"
    /\ ~last.hit
    /\ last.ret = Len(visual_items)
    /\ last.ocr.made
    /\ CASE kind = "failed" -> last.ocr.ret = INGEST_ERROR /\ last.ocr.inserted
         [] kind = "hit" -> last.ocr.hit /\ last.ocr.ret # INGEST_ERROR
         [] OTHER -> last.ocr.inserted /\ last.ocr.ret # INGEST_ERROR

C28_Witness ==
    /\ OcrOutcome("failed")
    /\ visual_items[last.ret].ocr_text = last.ocr.text
    /\ memory_items[Len(memory_items)].source = SourceOcr
    /\ memory_items[Len(memory_items)].vector_id = NULL

C28_HitWitness == OcrOutcome("hit") /\ Len(visual_items) = 2

C28_EmbeddedWitness == OcrOutcome("embedded") /\ ntotal(text_index) = 1

-----------------------------------------------------------------------------
(* Properties of the key of the duplicate test *)

\* the last call found a row by its content hash and returned the row's id
DedupHit == last.op = "ingest_text" /\ last.hit

\* C29 as stated: two ingest_text calls return the same id other than -1
\* only if their source tags are equal and their normalized texts are equal,
\* for all source and text strings.  An id is returned by the call that
\* inserted its row, which stores the call's source and normalized text, and
\* after that by duplicate hits only.
C29_DedupKeySeparatesSources ==
    DedupHit =>
        /\ memory_items[last.ret].source = last.source
        /\ memory_items[last.ret].content =
              normalize_text_for_embedding(last.text, MAX_CHARS)

\* what the duplicate test does compare: the string "source|text" of the
\* call and of the row are equal
C29_DedupHitHasEqualKey ==
    DedupHit =>
        DedupKey(memory_items[last.ret].source, memory_items[last.ret].content) =
            DedupKey(last.source, normalize_text_for_embedding(last.text, MAX_CHARS))

\* a text was taken for the duplicate of a text of another source
C29_OtherSourceWitness ==
    /\ DedupHit
    /\ memory_items[last.ret].source # last.source

\* a text ingested again under its source was found, and the same text
\* under another source was stored as a row of its own
C29_SameSourceWitness ==
    /\ DedupHit
    /\ memory_items[last.ret].source = last.source
    /\ \E i \in DOMAIN memory_items :
          /\ i # last.ret
          /\ memory_items[i].content = memory_items[last.ret].content
          /\ memory_items[i].source # last.source

-----------------------------------------------------------------------------
(* Properties of the counts of get_stats *)

\* the rows of a table that hold a vector id
RowsWithVector(table) == {i \in DOMAIN table : table[i].vector_id # NULL}

\* C30: in one process lifetime that began with an empty store, after every
\* ingest_text and ingest_image call, failed embedding calls included, the
\* count of the text index is the number of Chunk rows with a vector_id plus
\* the number of MemoryItem rows with a vector_id, and the count of the
\* visual index is the number of VisualItem rows
C30_VectorCountMatchesRows ==
    /\ ntotal(text_index) =
          Cardinality(RowsWithVector(chunks)) + Cardinality(RowsWithVector(memory_items))
    /\ ntotal(visual_index) = Len(visual_items)

\* after a text whose second chunk failed and two images, one with text:
\* two text vectors, one of a chunk and one of an item, and two visual vectors
C30_Witness ==
    /\ last.op = "ingest_image"
    /\ ingest_error_counts # <<>>
    /\ Cardinality(RowsWithVector(chunks)) = 1
    /\ Cardinality(RowsWithVector(memory_items)) = 1
    /\ Len(memory_items) = 2
    /\ ntotal(text_index) = 2
    /\ ntotal(visual_index) = 2

=============================================================================
